---- MODULE Spec2Model ----
(***************************************************************************)
(* Trading-Lab: the Google-Trends / price research engine of               *)
(* src/analytics/alternative_data.py, the volatility forecasts of          *)
(* src/analytics/volatility.py, the candle table of src/data_pipeline and  *)
(* the order-book replay of src/analytics/order_book_replay.py.            *)
(*                                                                         *)
(*   merge_trends_with_price      -> Merge        (specification SpecAlign)*)
(*   compute_lagged_correlations  -> Scan         (specification SpecScan) *)
(*   find_best_leading_lag        -> FindBest     (specification SpecScan) *)
(*   backtest_trend_signal        -> Backtest     (specification SpecBack) *)
(*   compute_volatility_features  -> ComputeFeatures (specification SpecVol)*)
(*   naive_vol_forecast           -> NaiveForecast   (specification SpecVol)*)
(*   xgboost_vol_forecast         -> XgbForecast     (specification SpecVol)*)
(*   init_klines_table, insert_klines, load_recent_klines_to_db            *)
(*                                -> specification SpecKlines              *)
(*   run_realtime_klines_etl      -> specifications SpecEtl, FairSpecEtl   *)
(*   render_order_book_replay_section -> specification SpecReplay          *)
(*                                                                         *)
(* SpecSignal is the backtest on its own; SpecShare is the calls of the    *)
(* engine that the dashboards make on one shared table.                    *)
(*                                                                         *)
(* Floating-point values are modelled exactly.  A quotient is the reduced  *)
(* fraction [num, den] with den > 0.  A value of the form a / sqrt(b) (a   *)
(* Pearson correlation, a z-score) is the record [sgn, num, den]: its sign *)
(* and its square num/den as a reduced fraction.  NaN is den = 0 in both.  *)
(* Sequences are 1-based here and 0-based in the source; PyIndex does the  *)
(* conversion of Python's slice bounds.                                    *)
(***************************************************************************)
EXTENDS Integers, Sequences, FiniteSets, Bags, TLC

VARIABLES
    pc,         \* position of the caller: which call has returned
    err,        \* the exception the last call raised, or "none"
    price_df,   \* rows (ds, price) as loaded; in SpecVol rows (ds, y)
    trends_df,  \* merge_trends_with_price: rows (ds, trend) as fetched
    merged,     \* merge_trends_with_price: the table returned
    df,         \* the aligned table (ds, price, trend) handed to the engine;
                \* in SpecVol the table compute_volatility_features returns
    max_lag,    \* compute_lagged_correlations: its max_lag argument
    corr_df,    \* compute_lagged_correlations: the table returned
    samples,    \* compute_lagged_correlations: the x, y slices of each lag
    best,       \* find_best_leading_lag: the dict returned, or None
    params,     \* the arguments of the last call (best_lag, z_threshold,
                \* roll_window; window_short, window_long, horizon, test_size)
    bt_df,      \* backtest_trend_signal: the table returned
    metrics,    \* the metrics dict returned by the backtest or a forecast
    forecast,   \* naive_vol_forecast, xgboost_vol_forecast: the table returned
    model,      \* xgboost_vol_forecast: the fitted model returned
    price_klines,   \* database.py: the table price_klines, whether it
                    \* exists and the bag of its rows
    symbols,        \* run_realtime_klines_etl: its list of symbols
    sym,            \* run_realtime_klines_etl: position of `for sym in symbols`
    cycle,          \* run_realtime_klines_etl: passes of `while True` begun
    attempts,       \* the calls of load_recent_klines_to_db made by the loop
    session_state,  \* order_book_replay.py: st.session_state, a dict
    rendered        \* order_book_replay.py: the frame the last run rendered

\* the tables and results of the analytics functions
analytics_vars == <<price_df, trends_df, merged, df, max_lag, corr_df,
                    samples, best, params, bt_df, metrics, forecast, model>>

\* the same without the arguments of the last call
analytics_vars_but_params ==
    <<price_df, trends_df, merged, df, max_lag, corr_df, samples, best,
      bt_df, metrics, forecast, model>>

\* the candle table and the loop that fills it
klines_vars == <<price_klines, symbols, sym, cycle, attempts>>

\* the session of the order-book replay
replay_vars == <<session_state, rendered>>

vars == <<pc, err, analytics_vars, klines_vars, replay_vars>>

---------------------------------------------------------------------------
(* Bounds of the model *)

MaxLen == 7

MaxLagBound == 3

MaxDate == 3

MaxRows == 4

MaxWin == 3

MaxVolLen == 7

MaxHorizon == 2

MaxSignalRows == 3

MaxFrames == 3

MaxCycles == 2

MaxOpenTime == 1

MaxBatch == 2

PriceValues == {1, 2}

TrendValues == {0, 1}

---------------------------------------------------------------------------
(* Values *)

\* not-a-number, in the shape of the values a / sqrt(b)
NaN == [sgn |-> 0, num |-> 0, den |-> 0]

IsNaN(v) == v.den = 0

\* Python's None, as the result of a call that returns a dict otherwise
None == [none |-> TRUE]

Abs(a) == IF a < 0 THEN -a ELSE a

Sign(a) == IF a < 0 THEN -1 ELSE IF a > 0 THEN 1 ELSE 0

Min(a, b) == IF a < b THEN a ELSE b

Max(a, b) == IF a > b THEN a ELSE b

RECURSIVE Gcd(_, _)
Gcd(a, b) == IF b = 0 THEN a ELSE Gcd(b, a % b)

RECURSIVE SumSeq(_)
SumSeq(s) == IF s = <<>> THEN 0 ELSE Head(s) + SumSeq(Tail(s))

\* sum of x[i] * y[i]
Dot(x, y) == SumSeq([i \in 1..Len(x) |-> x[i] * y[i]])

\* the value of sign a whose square is n / d (n >= 0, d > 0), reduced
SignedSquare(a, n, d) ==
    LET g == Gcd(n, d)
    IN  IF a = 0 THEN [sgn |-> 0, num |-> 0, den |-> 1]
        ELSE [sgn |-> Sign(a), num |-> n \div g, den |-> d \div g]

\* a / sqrt(b), b > 0
Root(a, b) == SignedSquare(a, a * a, b)

\* quotients of floats: a / b as the reduced fraction, b # 0
Frac(a, b) ==
    LET g == Gcd(Abs(a), Abs(b))
    IN  [num |-> (Sign(b) * a) \div g, den |-> Abs(b) \div g]

\* not-a-number, in the shape of the fractions
FNaN == [num |-> 0, den |-> 0]

One == [num |-> 1, den |-> 1]

FAdd(u, v) ==
    IF u.den = 0 \/ v.den = 0 THEN FNaN
    ELSE Frac(u.num * v.den + v.num * u.den, u.den * v.den)

FSub(u, v) ==
    IF u.den = 0 \/ v.den = 0 THEN FNaN
    ELSE Frac(u.num * v.den - v.num * u.den, u.den * v.den)

FMul(u, v) ==
    IF u.den = 0 \/ v.den = 0 THEN FNaN
    ELSE Frac(u.num * v.num, u.den * v.den)

RECURSIVE FSum(_)
FSum(s) == IF s = <<>> THEN Frac(0, 1) ELSE FAdd(Head(s), FSum(Tail(s)))

\* |u| <= |v| for two values a / sqrt(b)
AbsLeq(u, v) == u.num * v.den <= v.num * u.den

AbsLess(u, v) == u.num * v.den < v.num * u.den

\* the database before CREATE TABLE price_klines
NoTable == [exists |-> FALSE, rows |-> EmptyBag]

\* no candle table, no loop running
NoKlines ==
    /\ price_klines = NoTable
    /\ symbols = <<>>
    /\ sym = 0
    /\ cycle = 0
    /\ attempts = <<>>

\* no replay session: st.session_state holds no key, nothing is rendered
NoReplay ==
    /\ session_state = <<>>
    /\ rendered = None

\* no table loaded and no result returned
NoAnalytics ==
    /\ price_df = <<>>
    /\ trends_df = <<>>
    /\ merged = <<>>
    /\ df = <<>>
    /\ max_lag = 0
    /\ corr_df = <<>>
    /\ samples = <<>>
    /\ best = None
    /\ params = None
    /\ bt_df = <<>>
    /\ metrics = None
    /\ forecast = <<>>
    /\ model = None

---------------------------------------------------------------------------
(* Python slicing: a[start:], a[:stop] *)

\* a slice bound as the number of leading elements it leaves out
PyIndex(k, n) == IF k < 0 THEN Max(k + n, 0) ELSE Min(k, n)

PySliceFrom(a, start) == SubSeq(a, PyIndex(start, Len(a)) + 1, Len(a))

PySliceTo(a, stop) == SubSeq(a, 1, PyIndex(stop, Len(a)))

\* a sequence held as an evaluated array (no lazy function application)
Arr(s) == SubSeq(s, 1, Len(s))

Column(t, c) == Arr([i \in 1..Len(t) |-> t[i][c]])

---------------------------------------------------------------------------
(* merge_trends_with_price *)

\* pd.merge(left, right, on="ds", how="inner"): the rows of left, in the
\* order of left, each beside every row of right of the same ds
RECURSIVE InnerJoin(_, _)
InnerJoin(left, right) ==
    IF left = <<>> THEN <<>>
    ELSE LET l == Head(left)
             matches == SelectSeq(right, LAMBDA r : r.ds = l.ds)
         IN  [j \in 1..Len(matches) |->
                 [ds |-> l.ds, price |-> l.price, trend |-> matches[j].trend]]
             \o InnerJoin(Tail(left), right)

RECURSIVE InsertByDs(_, _)
InsertByDs(sorted, row) ==
    IF sorted = <<>> THEN <<row>>
    ELSE IF row.ds < Head(sorted).ds THEN <<row>> \o sorted
    ELSE <<Head(sorted)>> \o InsertByDs(Tail(sorted), row)

RECURSIVE SortedPrefix(_, _)
SortedPrefix(t, k) ==
    IF k = 0 THEN <<>> ELSE InsertByDs(SortedPrefix(t, k - 1), t[k])

NoSort(t) == t

\* .sort_values("ds").reset_index(drop=True): ascending ds, positions
\* renumbered (the keys of the rows joined here are distinct, so the
\* order is the same for every sorting algorithm)
SortByDs(t) == SortedPrefix(t, Len(t))

MergedTable(p, t) == SortByDs(InnerJoin(p, t))

MergeRaisesNever(m) == FALSE

\* if merged.empty: raise ValueError(...)
MergeRaises(m) == m = <<>>

Merge ==
    /\ pc = "start"
    /\ IF MergeRaises(MergedTable(price_df, trends_df))
       THEN /\ pc' = "failed"
            /\ err' = "ValueError"
            /\ UNCHANGED merged
       ELSE /\ pc' = "merged"
            /\ merged' = MergedTable(price_df, trends_df)
            /\ UNCHANGED err
    /\ UNCHANGED <<price_df, trends_df, df, max_lag, corr_df, samples, best,
                   params, bt_df, metrics, forecast, model>>
    /\ UNCHANGED <<klines_vars, replay_vars>>

---------------------------------------------------------------------------
(* compute_lagged_correlations *)

MinSupportLow == 5 - 1

\* the minimum overlap: if len(x) < 5
MinSupport == 5

CorrcoefUncentred(x, y) ==
    IF Dot(x, x) * Dot(y, y) = 0 THEN NaN
    ELSE Root(Dot(x, y), Dot(x, x) * Dot(y, y))

\* np.corrcoef(x, y)[0, 1] for arrays of equal length:
\* cov / (sqrt(var x) * sqrt(var y)); a zero variance gives 0/0 = nan
Corrcoef(x, y) ==
    LET n   == Len(x)
        cov == n * Dot(x, y) - SumSeq(x) * SumSeq(y)
        vx  == n * Dot(x, x) - SumSeq(x) * SumSeq(x)
        vy  == n * Dot(y, y) - SumSeq(y) * SumSeq(y)
    IN  IF vx * vy = 0 THEN NaN ELSE Root(cov, vx * vy)

\* np.corrcoef raises ValueError on arrays of different length
CorrcoefRaises(x, y) == Len(x) # Len(y)

LagSlicesSwapped(price, trend, lag) ==
    IF lag < 0
    THEN [x |-> PySliceFrom(trend, -lag), y |-> PySliceTo(price, Len(price) + lag)]
    ELSE IF lag > 0
    THEN [x |-> PySliceFrom(trend, lag), y |-> PySliceTo(price, -lag)]
    ELSE [x |-> trend, y |-> price]

\* the x, y arrays of one iteration of the loop
LagSlices(price, trend, lag) ==
    IF lag < 0
    THEN [x |-> PySliceFrom(trend, -lag), y |-> PySliceTo(price, Len(price) + lag)]
    ELSE IF lag > 0
    THEN [x |-> PySliceTo(trend, -lag), y |-> PySliceFrom(price, lag)]
    ELSE [x |-> trend, y |-> price]

ComputedAlways(s) == TRUE

\* the else branch of `if len(x) < 5`: a correlation is computed
Computed(s) == ~(Len(s.x) < MinSupport)

LagCorr(s) == IF ~Computed(s) THEN NaN ELSE Corrcoef(s.x, s.y)

LagRangeShort(m) == [k \in 1..(2 * m) |-> k - m - 1]

\* range(-max_lag, max_lag + 1)
LagRange(m) == [k \in 1..(2 * m + 1) |-> k - m - 1]

ScanSamples(t, m) ==
    LET price == Column(t, "price")
        trend == Column(t, "trend")
        lags  == LagRange(m)
    IN  [k \in 1..Len(lags) |-> LagSlices(price, trend, lags[k])]

\* the rows appended by the loop, in loop order
ScanTable(t, m) ==
    LET price == Column(t, "price")
        trend == Column(t, "trend")
        lags  == LagRange(m)
    IN  [k \in 1..Len(lags) |->
            [lag |-> lags[k],
             correlation |-> LagCorr(LagSlices(price, trend, lags[k]))]]

ScanRaises(t, m) ==
    LET price == Column(t, "price")
        trend == Column(t, "trend")
        lags  == LagRange(m)
    IN  \E k \in 1..Len(lags) :
            LET s == LagSlices(price, trend, lags[k])
            IN  Computed(s) /\ CorrcoefRaises(s.x, s.y)

\* df["price"].values.astype(float), df["trend"].values.astype(float): the
\* scan reads the two columns into arrays of its own and writes to no
\* column, so the caller's table t is as it was
ScanInput(t) == t

Scan ==
    /\ pc = "start"
    /\ \E m \in 0..MaxLagBound :
        /\ max_lag' = m
        /\ IF ScanRaises(df, m)
           THEN /\ pc' = "failed"
                /\ err' = "ValueError"
                /\ UNCHANGED <<corr_df, samples>>
           ELSE /\ pc' = "scanned"
                /\ corr_df' = ScanTable(df, m)
                /\ samples' = ScanSamples(df, m)
                /\ UNCHANGED err
    /\ df' = ScanInput(df)
    /\ UNCHANGED <<price_df, trends_df, merged, best, params, bt_df, metrics,
                   forecast, model>>
    /\ UNCHANGED <<klines_vars, replay_vars>>

---------------------------------------------------------------------------
(* find_best_leading_lag *)

LeadingFromZero(t) ==
    SelectSeq(t, LAMBDA r : r.lag >= 0 /\ ~IsNaN(r.correlation))

\* corr_df[corr_df["lag"] > 0].dropna(subset=["correlation"])
Leading(t) ==
    SelectSeq(t, LAMBDA r : r.lag > 0 /\ ~IsNaN(r.correlation))

\* numpy argmax scanning from the left: a later element replaces the
\* current maximum only when it is strictly greater (first occurrence)
RECURSIVE ArgMaxLast(_, _, _)
ArgMaxLast(t, i, cur) ==
    IF i > Len(t) THEN cur
    ELSE IF AbsLeq(t[cur].correlation, t[i].correlation)
         THEN ArgMaxLast(t, i + 1, i)
         ELSE ArgMaxLast(t, i + 1, cur)

RECURSIVE ArgMaxAbs(_, _, _)
ArgMaxAbs(t, i, cur) ==
    IF i > Len(t) THEN cur
    ELSE IF AbsLess(t[cur].correlation, t[i].correlation)
         THEN ArgMaxAbs(t, i + 1, i)
         ELSE ArgMaxAbs(t, i + 1, cur)

FindBestNoDropna(t) ==
    LET leading == SelectSeq(t, LAMBDA r : r.lag > 0)
    IN  IF leading = <<>> THEN None
        ELSE LET row == leading[1]
             IN  [lag |-> row.lag, correlation |-> row.correlation]

FindBestResult(t) ==
    LET leading == Leading(t)
    IN  IF leading = <<>> THEN None
        ELSE LET row == leading[ArgMaxAbs(leading, 2, 1)]
             IN  [lag |-> row.lag, correlation |-> row.correlation]

FindBest ==
    /\ pc = "scanned"
    /\ best' = FindBestResult(corr_df)
    /\ pc' = "picked"
    /\ UNCHANGED <<err, price_df, trends_df, merged, df, max_lag, corr_df,
                   samples, params, bt_df, metrics, forecast, model>>
    /\ UNCHANGED <<klines_vars, replay_vars>>

---------------------------------------------------------------------------
(* backtest_trend_signal *)

FutureRetBackward(price, L) ==
    [i \in 1..Len(price) |->
        IF i - L \in 1..Len(price)
        THEN Frac(price[i - L] - price[i], price[i])
        ELSE FNaN]

\* df["price"].shift(-L) / df["price"] - 1.0: row i beside the price of
\* row i + L, NaN where there is no such row
FutureRet(price, L) ==
    [i \in 1..Len(price) |->
        IF i + L \in 1..Len(price)
        THEN Frac(price[i + L] - price[i], price[i])
        ELSE FNaN]

TrendZPopulation(trend, w, i) ==
    IF i < w \/ w = 1 THEN NaN
    ELSE LET win == SubSeq(trend, i - w + 1, i)
             S   == SumSeq(win)
             Q   == Dot(win, win)
             dev == w * trend[i] - S
         IN  IF w * Q - S * S = 0 THEN NaN
             ELSE SignedSquare(dev, dev * dev, w * Q - S * S)

TrendZForward(trend, w, i) ==
    IF i + w - 1 > Len(trend) \/ w = 1 THEN NaN
    ELSE LET win == SubSeq(trend, i, i + w - 1)
             S   == SumSeq(win)
             Q   == Dot(win, win)
             dev == w * trend[i] - S
         IN  IF w * Q - S * S = 0 THEN NaN
             ELSE SignedSquare(dev, dev * dev * (w - 1), w * (w * Q - S * S))

\* (trend - rolling(w).mean()) / rolling(w).std() on row i: NaN until the
\* window holds w rows; std has the n-1 denominator, NaN for w = 1; a
\* zero std gives 0/0 = NaN.  With S the sum of the window and Q its sum
\* of squares, z = (x - S/w) / sqrt((w*Q - S*S) / (w*(w-1))).
TrendZ(trend, w, i) ==
    IF i < w \/ w = 1 THEN NaN
    ELSE LET win == SubSeq(trend, i - w + 1, i)
             S   == SumSeq(win)
             Q   == Dot(win, win)
             dev == w * trend[i] - S
         IN  IF w * Q - S * S = 0 THEN NaN
             ELSE SignedSquare(dev, dev * dev * (w - 1), w * (w * Q - S * S))

\* df["trend"].diff() on row i: NaN on the first row
TrendSlope(trend, i) ==
    IF i = 1 THEN FNaN ELSE Frac(trend[i] - trend[i - 1], 1)

\* z > thr for thr = p / q, q > 0; False for NaN
ZGreater(z, thr) ==
    LET p == thr[1]
        q == thr[2]
    IN  /\ ~IsNaN(z)
        /\ IF p >= 0
           THEN z.sgn > 0 /\ z.num * q * q > p * p * z.den
           ELSE z.sgn >= 0 \/ z.num * q * q < p * p * z.den

\* slope > 0; False for NaN
FPositive(u) == u.den # 0 /\ u.num > 0

SignalZOnly(trend, w, thr) ==
    [i \in 1..Len(trend) |->
        IF ZGreater(TrendZ(trend, w, i), thr) THEN 1 ELSE 0]

\* df["signal"] = 0, then 1 where (trend_z > z_threshold) & (trend_slope > 0)
Signal(trend, w, thr) ==
    [i \in 1..Len(trend) |->
        IF ZGreater(TrendZ(trend, w, i), thr) /\ FPositive(TrendSlope(trend, i))
        THEN 1 ELSE 0]

\* df.dropna(subset=["future_ret_L"]): the positions kept, in order
KeptRows(fut) ==
    SelectSeq([i \in 1..Len(fut) |-> i], LAMBDA i : fut[i].den # 0)

StrategyRetAlways(signal, future_ret_L) == future_ret_L

\* bt_df["signal"] * bt_df["future_ret_L"] on one row
StrategyRet(signal, future_ret_L) == FMul(Frac(signal, 1), future_ret_L)

BenchRetInPosition(signal, future_ret_L) == FMul(Frac(signal, 1), future_ret_L)

\* bt_df["bh_ret"] = bt_df["future_ret_L"] on one row, whatever its signal
BenchRet(signal, future_ret_L) == future_ret_L

\* x.cumprod(): out[0] = x[0], out[k] = out[k-1] * x[k]
RECURSIVE CumProdTail(_, _, _)
CumProdTail(x, k, acc) ==
    IF k > Len(x) THEN <<>>
    ELSE <<FMul(acc, x[k])>> \o CumProdTail(x, k + 1, FMul(acc, x[k]))

CumProdFromOne(x) ==
    IF Len(x) = 0 THEN <<>> ELSE SubSeq(<<One>> \o CumProdTail(x, 1, One), 1, Len(x))

CumProd(x) == IF Len(x) = 0 THEN <<>> ELSE <<x[1]>> \o CumProdTail(x, 2, x[1])

\* the sample variance (n-1 denominator) of a column; NaN for one row
SampleVar(ret) ==
    LET m   == Len(ret)
        avg == FMul(FSum(ret), Frac(1, m))
    IN  IF m < 2 THEN FNaN
        ELSE FMul(FSum([k \in 1..m |-> FMul(FSub(ret[k], avg), FSub(ret[k], avg))]),
                  Frac(1, m - 1))

SharpeLikeOrZero(ret, L) ==
    LET m   == Len(ret)
        avg == FMul(FSum(ret), Frac(1, m))
        var == SampleVar(ret)
    IN  IF ~FPositive(var) \/ L < 0 THEN SignedSquare(0, 0, 1)
        ELSE SignedSquare(avg.num,
                          avg.num * avg.num * var.den * 252,
                          avg.den * avg.den * var.num * L)

\* avg / std * np.sqrt(252.0 / L) if std > 0 else nan; the square root of
\* a negative number is nan
SharpeLike(ret, L) ==
    LET m   == Len(ret)
        avg == FMul(FSum(ret), Frac(1, m))
        var == SampleVar(ret)
    IN  IF ~FPositive(var) \/ L < 0 THEN NaN
        ELSE SignedSquare(avg.num,
                          avg.num * avg.num * var.den * 252,
                          avg.den * avg.den * var.num * L)

\* the columns of bt_df that are returned
BacktestTable(t, L, thr, w) ==
    LET price  == Column(t, "price")
        trend  == Column(t, "trend")
        fut    == Arr(FutureRet(price, L))
        signal == Arr(Signal(trend, w, thr))
        kept   == KeptRows(fut)
        strat  == Arr([k \in 1..Len(kept) |->
                          StrategyRet(signal[kept[k]], fut[kept[k]])])
        bh     == Arr([k \in 1..Len(kept) |->
                          BenchRet(signal[kept[k]], fut[kept[k]])])
        eqs    == CumProd(Arr([k \in 1..Len(kept) |-> FAdd(One, strat[k])]))
        eqb    == CumProd(Arr([k \in 1..Len(kept) |-> FAdd(One, bh[k])]))
    IN  Arr([k \in 1..Len(kept) |->
                [ds              |-> t[kept[k]].ds,
                 signal          |-> signal[kept[k]],
                 strategy_ret    |-> strat[k],
                 bh_ret          |-> bh[k],
                 equity_strategy |-> eqs[k],
                 equity_bh       |-> eqb[k]]])

\* the metrics dict, from the table bt of at least one row
BacktestMetrics(bt, L) ==
    [total_return_strategy |-> FSub(bt[Len(bt)].equity_strategy, One),
     total_return_bh       |-> FSub(bt[Len(bt)].equity_bh, One),
     sharpe_like           |-> SharpeLike(Column(bt, "strategy_ret"), L),
     n_trades_periods      |-> SumSeq(Column(bt, "signal")),
     lag_used              |-> L]

\* bt_df[...].iloc[-1] on a table without rows raises IndexError;
\* 252.0 / L raises ZeroDivisionError for L = 0 when it is evaluated
BacktestError(bt, L) ==
    IF bt = <<>> THEN "IndexError"
    ELSE IF L = 0 /\ FPositive(SampleVar(Column(bt, "strategy_ret")))
    THEN "ZeroDivisionError"
    ELSE "none"

\* the working table of backtest_trend_signal before its dropna: the rows
\* of t with the columns future_ret_L, trend_z, trend_slope and signal
\* (trend_mean and trend_std are held inside trend_z)
BacktestFrame(t, L, thr, w) ==
    LET price  == Column(t, "price")
        trend  == Column(t, "trend")
        fut    == Arr(FutureRet(price, L))
        signal == Arr(Signal(trend, w, thr))
    IN  Arr([i \in 1..Len(t) |->
                [ds           |-> t[i].ds,
                 price        |-> t[i].price,
                 trend        |-> t[i].trend,
                 future_ret_L |-> fut[i],
                 trend_z      |-> TrendZ(trend, w, i),
                 trend_slope  |-> TrendSlope(trend, i),
                 signal       |-> signal[i]]])

BacktestInputAliased(t, work) == work

\* df = df.copy(): the name df is bound to a copy, the columns that follow
\* are written to that copy (work), and the caller's table t keeps its
\* rows, its columns and its values
BacktestInput(t, work) == t

\* the z_threshold arguments, as p / q
Thresholds == {<<0, 1>>, <<1, 2>>, <<3, 2>>}

Backtest ==
    /\ pc \in {"start", "scanned"}
    /\ \E L \in (-1)..Len(df), w \in 1..MaxWin, thr \in Thresholds :
        LET bt == BacktestTable(df, L, thr, w)
            e  == BacktestError(bt, L)
        IN  /\ params' = [best_lag |-> L, z_threshold |-> thr, roll_window |-> w]
            /\ IF e # "none"
               THEN /\ pc' = "failed"
                    /\ err' = e
                    /\ UNCHANGED <<bt_df, metrics>>
               ELSE /\ pc' = "backtested"
                    /\ bt_df' = bt
                    /\ metrics' = BacktestMetrics(bt, L)
                    /\ UNCHANGED err
            /\ df' = BacktestInput(df, BacktestFrame(df, L, thr, w))
    /\ UNCHANGED <<price_df, trends_df, merged, max_lag, corr_df, samples, best,
                   forecast, model>>
    /\ UNCHANGED <<klines_vars, replay_vars>>

---------------------------------------------------------------------------
(* Specification of the lag scan, over aligned tables of at most MaxLen rows *)

\* the trend columns of the scan: level, one step up or down, or zigzag
TrendShapes(n) ==
    {[i \in 1..n |-> a] : a \in TrendValues}
    \cup {[i \in 1..n |-> IF i <= k THEN c[1] ELSE c[2]] :
            k \in 1..(n - 1), c \in TrendValues \X TrendValues}
    \cup {[i \in 1..n |-> IF i % 2 = 1 THEN c[1] ELSE c[2]] :
            c \in TrendValues \X TrendValues}

\* rows (ds, price, trend) with ds strictly increasing: any price column
\* over PriceValues beside a trend column of TrendShapes
ScanTables(n) ==
    {[i \in 1..n |-> [ds |-> i, price |-> p[i], trend |-> t[i]]] :
        p \in [1..n -> PriceValues], t \in TrendShapes(n)}

\* the table of six days with prices 100..105 beside the indicator
\* 1, 1, 2, 2, 3, 3
ScenarioOne ==
    LET price == <<100, 101, 102, 103, 104, 105>>
        trend == <<1, 1, 2, 2, 3, 3>>
    IN  [i \in 1..6 |-> [ds |-> i, price |-> price[i], trend |-> trend[i]]]

InitScan ==
    /\ pc = "start"
    /\ err = "none"
    /\ price_df = <<>>
    /\ trends_df = <<>>
    /\ merged = <<>>
    /\ df \in UNION {ScanTables(n) : n \in 0..MaxLen} \cup {ScenarioOne}
    /\ max_lag = 0
    /\ corr_df = <<>>
    /\ samples = <<>>
    /\ best = None
    /\ params = None
    /\ bt_df = <<>>
    /\ metrics = None
    /\ forecast = <<>>
    /\ model = None
    /\ NoKlines
    /\ NoReplay

NextScan == Scan \/ FindBest

SpecScan == InitScan /\ [][NextScan]_vars

---------------------------------------------------------------------------
(* Specification of the merge: two tables of at most MaxDate rows, the     *)
(* dates of each distinct and in any order                                 *)

Dates == 1..MaxDate

\* the sequences of distinct dates; load_price_data and
\* fetch_google_trends raise on an empty table, so each has a row
DateOrders == {o \in UNION {[1..n -> Dates] : n \in 1..MaxDate} :
                 \A i, j \in DOMAIN o : i # j => o[i] # o[j]}

\* the search-interest score fetched for a date
ScoreOf(d) == 10 * d

PriceFrames ==
    UNION {{[i \in DOMAIN o |-> [ds |-> o[i], price |-> v[i]]] :
               v \in [DOMAIN o -> PriceValues]} : o \in DateOrders}

TrendFrames ==
    {[i \in DOMAIN o |-> [ds |-> o[i], trend |-> ScoreOf(o[i])]] : o \in DateOrders}

InitAlign ==
    /\ pc = "start"
    /\ err = "none"
    /\ price_df \in PriceFrames
    /\ trends_df \in TrendFrames
    /\ merged = <<>>
    /\ df = <<>>
    /\ max_lag = 0
    /\ corr_df = <<>>
    /\ samples = <<>>
    /\ best = None
    /\ params = None
    /\ bt_df = <<>>
    /\ metrics = None
    /\ forecast = <<>>
    /\ model = None
    /\ NoKlines
    /\ NoReplay

NextAlign == Merge

SpecAlign == InitAlign /\ [][NextAlign]_vars

---------------------------------------------------------------------------
(* Specification of the backtest, over aligned tables of at most MaxRows   *)
(* rows                                                                    *)

BackTables(n) ==
    {[i \in 1..n |-> [ds |-> i, price |-> f[i][1], trend |-> f[i][2]]] :
        f \in [1..n -> PriceValues \X TrendValues]}

InitBack ==
    /\ pc = "start"
    /\ err = "none"
    /\ price_df = <<>>
    /\ trends_df = <<>>
    /\ merged = <<>>
    /\ df \in UNION {BackTables(n) : n \in 0..MaxRows}
    /\ max_lag = 0
    /\ corr_df = <<>>
    /\ samples = <<>>
    /\ best = None
    /\ params = None
    /\ bt_df = <<>>
    /\ metrics = None
    /\ forecast = <<>>
    /\ model = None
    /\ NoKlines
    /\ NoReplay

NextBack == Backtest

SpecBack == InitBack /\ [][NextBack]_vars

---------------------------------------------------------------------------
(* Specification of the positions of a backtest, over aligned tables of at *)
(* most MaxSignalRows rows                                                 *)

InitSignal ==
    /\ pc = "start"
    /\ err = "none"
    /\ price_df = <<>>
    /\ trends_df = <<>>
    /\ merged = <<>>
    /\ df \in UNION {BackTables(n) : n \in 0..MaxSignalRows}
    /\ max_lag = 0
    /\ corr_df = <<>>
    /\ samples = <<>>
    /\ best = None
    /\ params = None
    /\ bt_df = <<>>
    /\ metrics = None
    /\ forecast = <<>>
    /\ model = None
    /\ NoKlines
    /\ NoReplay

NextSignal == Backtest

SpecSignal == InitSignal /\ [][NextSignal]_vars

---------------------------------------------------------------------------
(* src/analytics/volatility.py.  The prices of this part are powers of     *)
(* two, so that a log return is a whole multiple of ln 2.  A return or a   *)
(* volatility is held in units of ln 2 as the record [sgn, num, den] of    *)
(* its sign and its square; NaN is den = 0.                                *)

\* log(y) / ln 2 for y a power of two
RECURSIVE LogTwo(_)
LogTwo(y) == IF y <= 1 THEN 0 ELSE 1 + LogTwo(y \div 2)

\* the whole number k, as a value
Whole(k) == SignedSquare(k, k * k, 1)

\* v.abs()
AbsVal(v) == [v EXCEPT !.sgn = Abs(v.sgn)]

\* col.shift(k): row i beside the value of row i - k, NaN where there is
\* no such row
Shift(col, k) ==
    Arr([i \in 1..Len(col) |-> IF i - k \in 1..Len(col) THEN col[i - k] ELSE NaN])

\* t.dropna(subset=cols): the rows of t without a NaN in a column of cols
DropNa(t, cols) == SelectSeq(t, LAMBDA r : \A c \in cols : ~IsNaN(r[c]))

RetFilledWithOne(y) ==
    [i \in 1..Len(y) |-> IF i = 1 THEN 1 ELSE LogTwo(y[i]) - LogTwo(y[i - 1])]

\* np.log(df["y"] / df["y"].shift(1)), in units of ln 2, and fillna(0.0)
\* for the first row, which has no previous row
Ret(y) ==
    [i \in 1..Len(y) |-> IF i = 1 THEN 0 ELSE LogTwo(y[i]) - LogTwo(y[i - 1])]

RollingStdPartial(x, w, i) ==
    LET lo  == Max(1, i - w + 1)
        m   == i - lo + 1
        win == SubSeq(x, lo, i)
        S   == SumSeq(win)
        Q   == Dot(win, win)
    IN  IF m < 2 THEN NaN
        ELSE SignedSquare(m * Q - S * S, m * Q - S * S, m * (m - 1))

\* x.rolling(w).std() on row i: NaN until the window holds w rows; the
\* sample standard deviation sqrt((w*Q - S*S) / (w*(w-1))) of the window
\* with sum S and sum of squares Q, NaN for w = 1
RollingStd(x, w, i) ==
    LET win == SubSeq(x, i - w + 1, i)
        S   == SumSeq(win)
        Q   == Dot(win, win)
    IN  IF i < w \/ w = 1 THEN NaN
        ELSE SignedSquare(w * Q - S * S, w * Q - S * S, w * (w - 1))

\* vol * np.sqrt(252)
Annualized(v) == IF IsNaN(v) THEN NaN ELSE SignedSquare(v.sgn, v.num * 252, v.den)

\* the numeric columns of the table of features
FeatureColumns == {"ret", "vol_short", "vol_long", "vol_short_ann", "vol_long_ann"}

\* compute_volatility_features on the loaded rows (ds, y)
VolatilityFeatures(loaded, window_short, window_long) ==
    LET ret == Arr(Ret(Column(loaded, "y")))
        all == Arr([i \in 1..Len(loaded) |->
                      [ds            |-> loaded[i].ds,
                       y             |-> loaded[i].y,
                       ret           |-> Whole(ret[i]),
                       vol_short     |-> RollingStd(ret, window_short, i),
                       vol_long      |-> RollingStd(ret, window_long, i),
                       vol_short_ann |-> Annualized(RollingStd(ret, window_short, i)),
                       vol_long_ann  |-> Annualized(RollingStd(ret, window_long, i))]])
    IN  DropNa(all, FeatureColumns)

ComputeFeatures ==
    /\ pc = "start"
    /\ \E window_short \in 1..MaxWin, window_long \in 1..MaxWin :
          /\ params' = [window_short |-> window_short, window_long |-> window_long]
          /\ df' = VolatilityFeatures(price_df, window_short, window_long)
    /\ pc' = "featured"
    /\ UNCHANGED <<err, price_df, trends_df, merged, max_lag, corr_df, samples,
                   best, bt_df, metrics, forecast, model>>
    /\ UNCHANGED <<klines_vars, replay_vars>>

RealizedVolPrev(t, horizon) ==
    Shift(Arr([i \in 1..Len(t) |-> AbsVal(t[i].ret)]), horizon)

\* df["ret"].abs().shift(-horizon): row i beside |ret| of row i + horizon
RealizedVolNext(t, horizon) ==
    Shift(Arr([i \in 1..Len(t) |-> AbsVal(t[i].ret)]), -horizon)

\* the rows (ds, realized_vol_next, forecast_vol) where both are defined;
\* forecast_vol is vol_long_ann of the same row
NaiveValid(t, horizon) ==
    LET target == RealizedVolNext(t, horizon)
    IN  DropNa(Arr([i \in 1..Len(t) |->
                      [ds                |-> t[i].ds,
                       realized_vol_next |-> target[i],
                       forecast_vol      |-> t[i].vol_long_ann]]),
               {"realized_vol_next", "forecast_vol"})

\* the pairs (y_true[i], y_pred[i]) an error metric is computed over
ErrorPairs(y_true, y_pred) ==
    Arr([i \in 1..Len(y_true) |-> [y_true |-> y_true[i], y_pred |-> y_pred[i]]])

\* mean_absolute_error(y_true, y_pred): the mean of |y_true - y_pred|,
\* held as the pairs it is the mean over
MeanAbsoluteError(y_true, y_pred) ==
    [kind |-> "mean_abs", pairs |-> ErrorPairs(y_true, y_pred)]

\* np.sqrt(mean_squared_error(y_true, y_pred)), held in the same way
RootMeanSquaredError(y_true, y_pred) ==
    [kind |-> "root_mean_sq", pairs |-> ErrorPairs(y_true, y_pred)]

\* np.nan as a metric
MetricNaN == [kind |-> "nan", pairs |-> <<>>]

NaiveMetricsUnguarded(valid) ==
    [MAE  |-> MeanAbsoluteError(Column(valid, "realized_vol_next"),
                                Column(valid, "forecast_vol")),
     RMSE |-> RootMeanSquaredError(Column(valid, "realized_vol_next"),
                                   Column(valid, "forecast_vol"))]

\* the metrics dict of naive_vol_forecast, NaN when valid is empty
NaiveMetrics(valid) ==
    IF valid = <<>> THEN [MAE |-> MetricNaN, RMSE |-> MetricNaN]
    ELSE [MAE  |-> MeanAbsoluteError(Column(valid, "realized_vol_next"),
                                     Column(valid, "forecast_vol")),
          RMSE |-> RootMeanSquaredError(Column(valid, "realized_vol_next"),
                                        Column(valid, "forecast_vol"))]

\* the working table of naive_vol_forecast before its dropna: the rows of
\* t with the columns realized_vol_next and forecast_vol
NaiveFrame(t, horizon) ==
    LET target == RealizedVolNext(t, horizon)
    IN  Arr([i \in 1..Len(t) |->
                [c \in DOMAIN t[i] \cup {"realized_vol_next", "forecast_vol"} |->
                    IF c = "realized_vol_next" THEN target[i]
                    ELSE IF c = "forecast_vol" THEN t[i].vol_long_ann
                    ELSE t[i][c]]])

\* df = df.copy() in naive_vol_forecast: the two columns are written to
\* the copy (work), and the caller's table t is as it was
NaiveInput(t, work) == t

NaiveForecast ==
    /\ pc = "featured"
    /\ \E horizon \in 1..MaxHorizon :
          /\ params' = [window_short |-> params.window_short,
                        window_long  |-> params.window_long,
                        horizon      |-> horizon]
          /\ forecast' = NaiveValid(df, horizon)
          /\ metrics' = NaiveMetrics(NaiveValid(df, horizon))
          /\ df' = NaiveInput(df, NaiveFrame(df, horizon))
    /\ pc' = "naive"
    /\ UNCHANGED <<err, price_df, trends_df, merged, max_lag, corr_df,
                   samples, best, bt_df, model>>
    /\ UNCHANGED <<klines_vars, replay_vars>>

\* the columns xgboost_vol_forecast adds
LearnedColumns ==
    {"realized_vol_next", "lag_ret", "lag2_ret", "lag_vol_short", "lag_vol_long"}

\* the working table of xgboost_vol_forecast before its dropna: the rows
\* of t with the target and the lagged features
XgbColumns(t, horizon) ==
    LET target        == RealizedVolNext(t, horizon)
        lag_ret       == Shift(Column(t, "ret"), 1)
        lag2_ret      == Shift(Column(t, "ret"), 2)
        lag_vol_short == Shift(Column(t, "vol_short_ann"), 1)
        lag_vol_long  == Shift(Column(t, "vol_long_ann"), 1)
    IN  Arr([i \in 1..Len(t) |->
                [ds                |-> t[i].ds,
                 y                 |-> t[i].y,
                 ret               |-> t[i].ret,
                 vol_short         |-> t[i].vol_short,
                 vol_long          |-> t[i].vol_long,
                 vol_short_ann     |-> t[i].vol_short_ann,
                 vol_long_ann      |-> t[i].vol_long_ann,
                 realized_vol_next |-> target[i],
                 lag_ret           |-> lag_ret[i],
                 lag2_ret          |-> lag2_ret[i],
                 lag_vol_short     |-> lag_vol_short[i],
                 lag_vol_long      |-> lag_vol_long[i]]])

\* the table with the target and the lagged features, after df.dropna()
XgbFrame(t, horizon) ==
    DropNa(XgbColumns(t, horizon), FeatureColumns \cup LearnedColumns)

\* df = df.copy() in xgboost_vol_forecast: the five columns are written
\* to the copy (work), df.dropna() binds the name to a further table, and
\* the caller's table t is as it was
XgbInput(t, work) == t

\* df[feature_cols].values, one row
FeatureRow(r) == <<r.lag_ret, r.lag2_ret, r.lag_vol_short, r.lag_vol_long>>

SplitIndexOfTestSize(len, test_size) == (len * test_size[1]) \div test_size[2]

\* int(len(X) * (1 - test_size)) for test_size = p / q in [0, 1]
SplitIndex(len, test_size) ==
    (len * (test_size[2] - test_size[1])) \div test_size[2]

\* model.fit(X_train, y_train): the fitted model, a function of the data
\* it is fit on
Fit(X_train, y_train) == [X_train |-> X_train, y_train |-> y_train]

\* model.predict(X_test): one prediction per row, a function of the
\* fitted model and of that row
Predict(fitted, X_test) ==
    Arr([j \in 1..Len(X_test) |-> [model |-> fitted, x |-> X_test[j]]])

\* xgboost_vol_forecast up to its return
XgbRun(t, horizon, test_size) ==
    LET frame   == XgbFrame(t, horizon)
        X       == Arr([i \in 1..Len(frame) |-> FeatureRow(frame[i])])
        y       == Column(frame, "realized_vol_next")
        split   == SplitIndex(Len(X), test_size)
        X_train == PySliceTo(X, split)
        X_test  == PySliceFrom(X, split)
        y_train == PySliceTo(y, split)
        y_test  == PySliceFrom(y, split)
        fitted  == Fit(X_train, y_train)
        preds   == Predict(fitted, X_test)
        tail    == PySliceFrom(frame, split)
    IN  [frame   |-> frame,
         split   |-> split,
         X_train |-> X_train,
         y_train |-> y_train,
         X_test  |-> X_test,
         y_test  |-> y_test,
         model   |-> fitted,
         preds   |-> preds,
         df_pred |-> Arr([j \in 1..Len(tail) |->
                            [c \in DOMAIN tail[j] \cup {"forecast_vol_xgb"} |->
                                IF c = "forecast_vol_xgb" THEN preds[j]
                                ELSE tail[j][c]]]),
         metrics |-> [MAE  |-> MeanAbsoluteError(y_test, preds),
                      RMSE |-> RootMeanSquaredError(y_test, preds)]]

\* fit on no row either raises or returns a model (fits); the metrics of
\* scikit-learn raise ValueError on no test row
XgbError(run, fits) ==
    IF run.X_train = <<>> /\ ~fits THEN "XGBoostError"
    ELSE IF run.y_test = <<>> THEN "ValueError"
    ELSE "none"

\* the test_size arguments, as p / q
TestSizes == {<<1, 5>>, <<1, 2>>}

XgbForecast ==
    /\ pc \in {"featured", "naive"}
    /\ \E horizon \in 1..MaxHorizon, test_size \in TestSizes, fits \in BOOLEAN :
          LET run == XgbRun(df, horizon, test_size)
              e   == XgbError(run, fits)
          IN  /\ params' = [window_short |-> params.window_short,
                            window_long  |-> params.window_long,
                            horizon      |-> horizon,
                            test_size    |-> test_size]
              /\ IF e # "none"
                 THEN /\ pc' = "failed"
                      /\ err' = e
                      /\ UNCHANGED <<forecast, metrics, model>>
                 ELSE /\ pc' = "learned"
                      /\ forecast' = run.df_pred
                      /\ metrics' = run.metrics
                      /\ model' = run.model
                      /\ UNCHANGED err
              /\ df' = XgbInput(df, XgbColumns(df, horizon))
    /\ UNCHANGED <<price_df, trends_df, merged, max_lag, corr_df, samples,
                   best, bt_df>>
    /\ UNCHANGED <<klines_vars, replay_vars>>

---------------------------------------------------------------------------
(* Specification of the volatility features and forecasts, over loaded     *)
(* price series of at most MaxVolLen rows                                  *)

\* the rows (ds, y) load_price_data returns: at least one row (it raises
\* on no row), ds increasing, y over PriceValues
VolFrames(n) ==
    {[i \in 1..n |-> [ds |-> i, y |-> p[i]]] : p \in [1..n -> PriceValues]}

InitVol ==
    /\ pc = "start"
    /\ err = "none"
    /\ price_df \in UNION {VolFrames(n) : n \in 1..MaxVolLen}
    /\ trends_df = <<>>
    /\ merged = <<>>
    /\ df = <<>>
    /\ max_lag = 0
    /\ corr_df = <<>>
    /\ samples = <<>>
    /\ best = None
    /\ params = None
    /\ bt_df = <<>>
    /\ metrics = None
    /\ forecast = <<>>
    /\ model = None
    /\ NoKlines
    /\ NoReplay

NextVol == ComputeFeatures \/ NaiveForecast \/ XgbForecast

SpecVol == InitVol /\ [][NextVol]_vars

---------------------------------------------------------------------------
(* Specification of calls that share one input: the aligned table the      *)
(* dashboard hands to the scan and then to the backtest, or the table of   *)
(* features it hands to the naive and then to the learned forecast         *)

MaxShareRows == 2

MaxShareLen == 4

\* alternative_data_ui.py: the merged table df is passed to
\* compute_lagged_correlations and then to backtest_trend_signal
SharedAligned == UNION {BackTables(n) : n \in 0..MaxShareRows}

\* volatility_ui.py: the features df of a loaded series are passed to
\* naive_vol_forecast and then to xgboost_vol_forecast
SharedLoaded == UNION {VolFrames(n) : n \in 1..MaxShareLen}

InitShare ==
    /\ err = "none"
    /\ trends_df = <<>>
    /\ max_lag = 0
    /\ corr_df = <<>>
    /\ samples = <<>>
    /\ best = None
    /\ bt_df = <<>>
    /\ metrics = None
    /\ forecast = <<>>
    /\ model = None
    /\ NoKlines
    /\ NoReplay
    /\ \/ /\ pc = "start"
          /\ price_df = <<>>
          /\ merged \in SharedAligned
          /\ df = merged
          /\ params = None
       \/ /\ pc = "featured"
          /\ price_df \in SharedLoaded
          /\ merged = <<>>
          /\ \E window_short \in 1..MaxWin, window_long \in 1..MaxWin :
                /\ params = [window_short |-> window_short,
                             window_long  |-> window_long]
                /\ df = VolatilityFeatures(price_df, window_short, window_long)

NextShare == Scan \/ Backtest \/ NaiveForecast \/ XgbForecast

SpecShare == InitShare /\ [][NextShare]_vars

---------------------------------------------------------------------------
(* src/data_pipeline/database.py and etl_jobs.py: the table price_klines.  *)
(* The table is the bag of its rows without the surrogate id; a row is     *)
(* (symbol, interval, open_time, close), close standing for the columns    *)
(* that are not part of the key.  open_time is in microseconds.            *)

\* the symbols of the candles: the default list of run_realtime_klines_etl
KlineSymbols == {"BTCUSDT", "ETHUSDT"}

\* the interval argument
KlineIntervals == {"1m"}

\* the values of a column outside the key
ClosePrices == {1, 2}

\* UNIQUE (symbol, interval, open_time), the target of ON CONFLICT
Key(r) == <<r.symbol, r.interval, r.open_time>>

\* the keys of the rows of a table
Keys(table) == {Key(r) : r \in BagToSet(table.rows)}

\* klines_to_df: a candle [open_time_ms, close] of the response becomes a
\* row with open_time = datetime.fromtimestamp(open_time_ms / 1000.0)
KlinesToDf(klines) ==
    Arr([i \in 1..Len(klines) |->
            [open_time |-> klines[i].open_time_ms * 1000,
             close     |-> klines[i].close]])

\* df["symbol"] = symbol; df["interval"] = interval; df.to_dict("records")
Records(symbol, interval, batch) ==
    Arr([i \in 1..Len(batch) |->
            [symbol    |-> symbol,
             interval  |-> interval,
             open_time |-> batch[i].open_time,
             close     |-> batch[i].close]])

OnConflictDoUpdate(table, r) ==
    LET others == {o \in BagToSet(table.rows) : Key(o) # Key(r)}
    IN  [table EXCEPT !.rows = [o \in others \cup {r} |->
                                   IF o = r THEN 1 ELSE table.rows[o]]]

\* INSERT ... ON CONFLICT (symbol, interval, open_time) DO NOTHING of one
\* record: the row is added unless a row of the table has its key
OnConflictDoNothing(table, r) ==
    IF Key(r) \in Keys(table) THEN table
    ELSE [table EXCEPT !.rows = table.rows (+) SetToBag({r})]

\* conn.execute(sql, records): the statement once per record, in order
RECURSIVE ExecuteMany(_, _)
ExecuteMany(table, records) ==
    IF records = <<>> THEN table
    ELSE ExecuteMany(OnConflictDoNothing(table, Head(records)), Tail(records))

\* insert_klines(symbol, interval, batch) on the table: the exception it
\* raises and the table after it.  An empty batch returns before the
\* database is reached; the statements run in one transaction
\* (engine.begin), so a call that raises leaves the table as it was.
InsertKlinesResult(table, symbol, interval, batch, db_up) ==
    IF batch = <<>> THEN [err |-> "none", table |-> table]
    ELSE IF ~db_up THEN [err |-> "OperationalError", table |-> table]
    ELSE IF ~table.exists THEN [err |-> "ProgrammingError", table |-> table]
    ELSE [err   |-> "none",
          table |-> ExecuteMany(table, Records(symbol, interval, batch))]

\* load_recent_klines_to_db(symbol, interval, limit): get_klines raises
\* when the request fails (fetched is FALSE), else the candles are
\* converted and inserted
LoadRecentResult(table, symbol, interval, klines, fetched, db_up) ==
    IF ~fetched THEN [err |-> "RequestException", table |-> table]
    ELSE InsertKlinesResult(table, symbol, interval, KlinesToDf(klines), db_up)

\* the number of rows a call added to the table
Added(before, after) == BagCardinality(after.rows) - BagCardinality(before.rows)

\* the batches handed to insert_klines: any rows, a key may come twice
Batches ==
    UNION {[1..n -> [open_time : {t * 60000000 : t \in 1..MaxOpenTime},
                     close     : ClosePrices]] : n \in 0..MaxBatch}

\* the responses of GET /api/v3/klines: candles by increasing open time
KlineResponses ==
    {k \in UNION {[1..n -> [open_time_ms : {t * 60000 : t \in 1..MaxOpenTime},
                             close        : ClosePrices]] : n \in 0..MaxBatch} :
        \A i \in 1..(Len(k) - 1) : k[i].open_time_ms < k[i + 1].open_time_ms}

\* CREATE TABLE IF NOT EXISTS price_klines (...)
InitKlinesTable ==
    /\ pc \in {"start", "returned", "raised"}
    /\ \E db_up \in BOOLEAN :
          IF db_up
          THEN /\ price_klines' = [price_klines EXCEPT !.exists = TRUE]
               /\ pc' = "returned"
               /\ err' = "none"
          ELSE /\ pc' = "raised"
               /\ err' = "OperationalError"
               /\ UNCHANGED price_klines
    /\ params' = [call |-> "init_klines_table"]
    /\ UNCHANGED <<price_df, trends_df, merged, df, max_lag, corr_df, samples,
                   best, bt_df, metrics, forecast, model>>
    /\ UNCHANGED <<symbols, sym, cycle, attempts, replay_vars>>

InsertKlines ==
    /\ pc \in {"start", "returned", "raised"}
    /\ \E symbol \in KlineSymbols, interval \in KlineIntervals,
          batch \in Batches, db_up \in BOOLEAN :
          LET res == InsertKlinesResult(price_klines, symbol, interval, batch, db_up)
          IN  /\ price_klines' = res.table
              /\ err' = res.err
              /\ pc' = IF res.err = "none" THEN "returned" ELSE "raised"
              /\ params' = [call |-> "insert_klines", symbol |-> symbol,
                            interval |-> interval, rows |-> Len(batch),
                            added |-> Added(price_klines, res.table)]
    /\ UNCHANGED <<price_df, trends_df, merged, df, max_lag, corr_df, samples,
                   best, bt_df, metrics, forecast, model>>
    /\ UNCHANGED <<symbols, sym, cycle, attempts, replay_vars>>

LoadRecentKlines ==
    /\ pc \in {"start", "returned", "raised"}
    /\ \E symbol \in KlineSymbols, interval \in KlineIntervals,
          klines \in KlineResponses, fetched \in BOOLEAN, db_up \in BOOLEAN :
          LET res == LoadRecentResult(price_klines, symbol, interval, klines,
                                      fetched, db_up)
          IN  /\ price_klines' = res.table
              /\ err' = res.err
              /\ pc' = IF res.err = "none" THEN "returned" ELSE "raised"
              /\ params' = [call |-> "load_recent_klines_to_db",
                            symbol |-> symbol, interval |-> interval,
                            rows |-> IF fetched THEN Len(klines) ELSE 0,
                            added |-> Added(price_klines, res.table)]
    /\ UNCHANGED <<price_df, trends_df, merged, df, max_lag, corr_df, samples,
                   best, bt_df, metrics, forecast, model>>
    /\ UNCHANGED <<symbols, sym, cycle, attempts, replay_vars>>

---------------------------------------------------------------------------
(* Specification of the candle table: any sequence of init_klines_table,   *)
(* insert_klines and load_recent_klines_to_db                              *)

InitKlines ==
    /\ pc = "start"
    /\ err = "none"
    /\ NoAnalytics
    /\ NoKlines
    /\ NoReplay

NextKlines == InitKlinesTable \/ InsertKlines \/ LoadRecentKlines

SpecKlines == InitKlines /\ [][NextKlines]_vars

---------------------------------------------------------------------------
(* src/analytics/order_book_replay.py: render_order_book_replay_section.   *)
(* Streamlit runs the script from its first line on every interaction and  *)
(* on st.rerun(); st.session_state is kept from one run to the next.  A    *)
(* run is modelled in steps: the defaults and the Load button, the replay  *)
(* controls, the rendering of the frame, the auto-play logic.              *)

SESSION_KEY_LOADED == "obr_loaded"

SESSION_KEY_FRAMES == "obr_frames"

SESSION_KEY_TIMESTAMPS == "obr_timestamps"

SESSION_KEY_IDX == "obr_idx"

SESSION_KEY_PLAY == "obr_play"

\* st.session_state[k] = v
Put(state, k, v) == [x \in DOMAIN state \cup {k} |-> IF x = k THEN v ELSE state[x]]

\* if k not in st.session_state: st.session_state[k] = v
PutDefault(state, k, v) == IF k \in DOMAIN state THEN state ELSE Put(state, k, v)

\* the three defaults set at the start of every run
SessionDefaults(state) ==
    PutDefault(PutDefault(PutDefault(state, SESSION_KEY_LOADED, FALSE),
                          SESSION_KEY_IDX, 0),
               SESSION_KEY_PLAY, FALSE)

\* what load_order_book_history gives: it raises, or it returns no row,
\* or rows of `count` snapshot times (0 when no row has a time)
LoadOutcomes ==
    {[kind |-> "raises", count |-> 0], [kind |-> "empty", count |-> 0]}
    \cup {[kind |-> "rows", count |-> n] : n \in 0..MaxFrames}

\* list(frames.keys()) for `count` snapshot times, by increasing time
Timestamps(count) == [i \in 1..count |-> i]

\* build_heatmap_frames: one heatmap for each snapshot time
Frames(count) == [ts \in 1..count |-> [heatmap_of |-> ts]]

\* the branch of a successful load: frames, timestamps, loaded, idx = 0
StoreSnapshots(state, count) ==
    Put(Put(Put(Put(state, SESSION_KEY_FRAMES, Frames(count)),
                SESSION_KEY_TIMESTAMPS, Timestamps(count)),
            SESSION_KEY_LOADED, TRUE),
        SESSION_KEY_IDX, 0)

\* the run goes on to the replay controls: snapshots are loaded and there
\* is a timestamp
ReachesControls(state) ==
    /\ state[SESSION_KEY_LOADED]
    /\ state[SESSION_KEY_TIMESTAMPS] # <<>>

\* Streamlit drops the state of a keyed widget that a run did not render:
\* the key of the Play checkbox may be gone after a run that returned
\* before the controls
AfterEarlyReturn(state, dropped) ==
    IF dropped
    THEN [x \in DOMAIN state \ {SESSION_KEY_PLAY} |-> state[x]]
    ELSE state

NextIdxUnwrapped(idx, count) == idx + 1

\* (st.session_state[SESSION_KEY_IDX] + 1) % len(timestamps)
NextIdx(idx, count) == (idx + 1) % count

\* a run in which "Load Snapshots" was clicked and rows were found
LoadSnapshots ==
    /\ pc \in {"idle", "rerun"}
    /\ \E load \in LoadOutcomes, dropped \in BOOLEAN :
          /\ load.kind = "rows"
          /\ params' = [clicked |-> TRUE, load |-> load]
          /\ LET state == StoreSnapshots(SessionDefaults(session_state), load.count)
             IN  IF ReachesControls(state)
                 THEN /\ session_state' = state
                      /\ pc' = "controls"
                 ELSE /\ session_state' = AfterEarlyReturn(state, dropped)
                      /\ pc' = "idle"
    /\ rendered' = None
    /\ err' = "none"
    /\ UNCHANGED <<analytics_vars_but_params, klines_vars>>

\* a run in which "Load Snapshots" was clicked and the query raised or
\* returned no row
LoadFails ==
    /\ pc \in {"idle", "rerun"}
    /\ \E load \in LoadOutcomes, dropped \in BOOLEAN :
          /\ load.kind # "rows"
          /\ params' = [clicked |-> TRUE, load |-> load]
          /\ LET state == SessionDefaults(session_state)
             IN  IF load.kind = "raises"
                 THEN /\ session_state' = AfterEarlyReturn(state, dropped)
                      /\ err' = "OperationalError"
                 ELSE /\ session_state'
                          = AfterEarlyReturn(Put(state, SESSION_KEY_LOADED, FALSE),
                                             dropped)
                      /\ err' = "none"
    /\ pc' = "idle"
    /\ rendered' = None
    /\ UNCHANGED <<analytics_vars_but_params, klines_vars>>

\* a run without a click on the button: after st.rerun(), or after the
\* user moved a slider or ticked the Play checkbox (toggled)
ScriptRerun ==
    /\ pc \in {"idle", "rerun"}
    /\ \E toggled \in BOOLEAN, dropped \in BOOLEAN :
          /\ toggled => SESSION_KEY_PLAY \in DOMAIN session_state
          /\ params' = [clicked |-> FALSE, toggled |-> toggled]
          /\ LET ticked == IF toggled
                           THEN Put(session_state, SESSION_KEY_PLAY,
                                    ~session_state[SESSION_KEY_PLAY])
                           ELSE session_state
                 state  == SessionDefaults(ticked)
             IN  IF ReachesControls(state)
                 THEN /\ session_state' = state
                      /\ pc' = "controls"
                 ELSE /\ session_state' = AfterEarlyReturn(state, dropped)
                      /\ pc' = "idle"
    /\ rendered' = None
    /\ err' = "none"
    /\ UNCHANGED <<analytics_vars_but_params, klines_vars>>

\* the replay controls: st.slider("Snapshot Index", 0, len - 1, current_idx)
\* raises when current_idx is outside 0..len - 1, and, depending on the
\* release of Streamlit (strict), when min and max are equal; else it
\* returns a value of 0..len - 1, its default or where the user left it,
\* and the value is stored as the index
SnapshotSlider ==
    /\ pc = "controls"
    /\ LET count       == Len(session_state[SESSION_KEY_TIMESTAMPS])
           current_idx == session_state[SESSION_KEY_IDX]
       IN  \E manual_idx \in 0..(count - 1), strict \in BOOLEAN :
              IF current_idx \notin 0..(count - 1) \/ (count = 1 /\ strict)
              THEN /\ pc' = "idle"
                   /\ err' = "StreamlitAPIException"
                   /\ UNCHANGED session_state
              ELSE /\ pc' = "render"
                   /\ session_state' = Put(session_state, SESSION_KEY_IDX, manual_idx)
                   /\ UNCHANGED err
    /\ UNCHANGED <<analytics_vars, klines_vars, rendered>>

\* ts = timestamps[idx]; heat_df = frames[ts]; the chart and the caption
\* "Frame idx + 1 / len(timestamps)"
RenderFrame ==
    /\ pc = "render"
    /\ LET timestamps == session_state[SESSION_KEY_TIMESTAMPS]
           idx        == session_state[SESSION_KEY_IDX]
       IN  IF idx + 1 \in 1..Len(timestamps)
           THEN /\ rendered' = [idx   |-> idx,
                                count |-> Len(timestamps),
                                frame |-> session_state[SESSION_KEY_FRAMES]
                                              [timestamps[idx + 1]]]
                /\ pc' = "rendered"
                /\ UNCHANGED err
           ELSE /\ pc' = "idle"
                /\ err' = "IndexError"
                /\ UNCHANGED rendered
    /\ UNCHANGED <<analytics_vars, klines_vars, session_state>>

\* the auto-play logic: with Play ticked the index moves to the next
\* frame and st.rerun() starts the next run
AutoPlay ==
    /\ pc = "rendered"
    /\ IF session_state[SESSION_KEY_PLAY]
       THEN /\ session_state'
                = Put(session_state, SESSION_KEY_IDX,
                      NextIdx(session_state[SESSION_KEY_IDX],
                              Len(session_state[SESSION_KEY_TIMESTAMPS])))
            /\ pc' = "rerun"
       ELSE /\ pc' = "idle"
            /\ UNCHANGED session_state
    /\ UNCHANGED <<analytics_vars, klines_vars, rendered, err>>

---------------------------------------------------------------------------
(* Specification of the replay session: any sequence of runs *)

InitReplay ==
    /\ pc = "idle"
    /\ err = "none"
    /\ NoAnalytics
    /\ NoKlines
    /\ NoReplay

NextReplay ==
    LoadSnapshots \/ LoadFails \/ ScriptRerun \/ SnapshotSlider \/ RenderFrame \/ AutoPlay

SpecReplay == InitReplay /\ [][NextReplay]_vars

---------------------------------------------------------------------------
(* src/data_pipeline/etl_jobs.py: run_realtime_klines_etl.  The loop is    *)
(* modelled in its steps: the start of the function up to the loop, one    *)
(* iteration of `for sym in symbols`, and the sleep that ends a cycle.     *)
(* sym is the position in the list of the next symbol, cycle the number of *)
(* the running cycle, attempts what the cycle has done so far.             *)

\* the lists run_realtime_klines_etl is called with
SymbolLists ==
    {<<>>, <<"BTCUSDT">>, <<"ETHUSDT", "BTCUSDT">>, <<"BTCUSDT", "BTCUSDT">>}

\* the fallback list of `if symbols is None`
DefaultSymbols == <<"BTCUSDT", "ETHUSDT">>

CaughtRequestOnly(error) == error = "RequestException"

\* except Exception: every error load_recent_klines_to_db raises is an
\* Exception
Caught(error) == error \in {"RequestException", "OperationalError", "ProgrammingError"}

\* the function up to `while True`: the fallback list and init_klines_table(),
\* which is outside the try
StartEtl ==
    /\ pc = "start"
    /\ \E is_none \in BOOLEAN, given \in SymbolLists, interval \in KlineIntervals,
          db_up \in BOOLEAN :
          /\ params' = [call |-> "run_realtime_klines_etl", interval |-> interval]
          /\ symbols' = IF is_none THEN DefaultSymbols ELSE given
          /\ IF db_up
             THEN /\ price_klines' = [price_klines EXCEPT !.exists = TRUE]
                  /\ pc' = "loop"
                  /\ err' = "none"
                  /\ cycle' = 1
                  /\ sym' = 1
             ELSE /\ pc' = "raised"
                  /\ err' = "OperationalError"
                  /\ UNCHANGED <<price_klines, cycle, sym>>
    /\ UNCHANGED <<analytics_vars_but_params, attempts, replay_vars>>

\* one iteration of the for loop: load_recent_klines_to_db for the symbol
\* inside try / except Exception
EtlAttempt ==
    /\ pc = "loop"
    /\ sym <= Len(symbols)
    /\ \E klines \in KlineResponses, fetched \in BOOLEAN, db_up \in BOOLEAN :
          LET res == LoadRecentResult(price_klines, symbols[sym], params.interval,
                                      klines, fetched, db_up)
          IN  /\ price_klines' = res.table
              /\ attempts' = Append(attempts, [symbol |-> symbols[sym],
                                               error  |-> res.err])
              /\ IF res.err = "none" \/ Caught(res.err)
                 THEN /\ sym' = sym + 1
                      /\ UNCHANGED <<pc, err>>
                 ELSE /\ pc' = "raised"
                      /\ err' = res.err
                      /\ UNCHANGED sym
    /\ UNCHANGED <<analytics_vars, symbols, cycle, replay_vars>>

\* the end of the for loop: time.sleep(sleep_seconds), then the next cycle
EtlSleep ==
    /\ pc = "loop"
    /\ sym > Len(symbols)
    /\ cycle < MaxCycles
    /\ cycle' = cycle + 1
    /\ sym' = 1
    /\ attempts' = <<>>
    /\ UNCHANGED <<pc, err, analytics_vars, price_klines, symbols, replay_vars>>

---------------------------------------------------------------------------
(* Specification of the ETL loop, and the same with the loop running on:   *)
(* a call of load_recent_klines_to_db and a sleep both return              *)

InitEtl ==
    /\ pc = "start"
    /\ err = "none"
    /\ NoAnalytics
    /\ NoKlines
    /\ NoReplay

NextEtl == StartEtl \/ EtlAttempt \/ EtlSleep

SpecEtl == InitEtl /\ [][NextEtl]_vars

FairSpecEtl == SpecEtl /\ WF_vars(EtlAttempt) /\ WF_vars(EtlSleep)

---------------------------------------------------------------------------
(* Properties of the lag scan *)

Scanned == pc \in {"scanned", "picked"}

Defined(k) == ~IsNaN(corr_df[k].correlation)

\* C1: the table returned by compute_lagged_correlations has exactly
\* 2*max_lag + 1 rows and its k-th row is the lag -max_lag + (k - 1), so the
\* lags are -max_lag..max_lag in strictly increasing order, one row per
\* lag, whatever the number of rows of the input and however many
\* correlations are NaN.
C1_TableShape ==
    Scanned =>
        /\ Len(corr_df) = 2 * max_lag + 1
        /\ \A k \in 1..Len(corr_df) : corr_df[k].lag = k - 1 - max_lag
        /\ \A k \in 1..(Len(corr_df) - 1) : corr_df[k].lag < corr_df[k + 1].lag

\* a scan of a table shorter than max_lag, every correlation NaN
C1_Witness ==
    /\ pc = "scanned"
    /\ max_lag = 2
    /\ Len(df) = 1
    /\ Len(corr_df) = 5
    /\ \A k \in 1..Len(corr_df) : ~Defined(k)

\* the pairs (trend[i], price[i + l]) with both indexes inside the table,
\* by increasing i
PairedFirst(n, l) == Max(1, 1 - l)

PairedCount(n, l) == Max(0, Min(n, n - l) - PairedFirst(n, l) + 1)

PairedX(t, l) ==
    [j \in 1..PairedCount(Len(t), l) |-> t[PairedFirst(Len(t), l) + j - 1].trend]

PairedY(t, l) ==
    [j \in 1..PairedCount(Len(t), l) |-> t[PairedFirst(Len(t), l) + j - 1 + l].price]

C3_MinSupport ==
    Scanned =>
        \A k \in 1..Len(corr_df) :
            /\ Len(df) - Abs(corr_df[k].lag) < 5 => ~Defined(k)
            /\ Defined(k) => Len(samples[k].x) >= 5 /\ Len(samples[k].y) >= 5

\* six rows: lag 1 has an overlap of 5 and a correlation, lag 2 an
\* overlap of 4 over which both columns vary, and no correlation
C3_Witness ==
    /\ pc = "scanned"
    /\ max_lag = 2
    /\ Len(df) = 6
    /\ Defined(4)
    /\ ~Defined(5)
    /\ Len(samples[5].x) = 4
    /\ ~IsNaN(Corrcoef(samples[5].x, samples[5].y))

PositiveDefined(k) == corr_df[k].lag > 0 /\ Defined(k)

\* C4: a result of find_best_leading_lag has a lag > 0 and a correlation
\* that is not NaN and is the table's entry at that lag, and no other
\* positive lag with a correlation has a larger absolute correlation.
C4_BestIsLeadingMax ==
    (pc = "picked" /\ best # None) =>
        /\ best.lag > 0
        /\ ~IsNaN(best.correlation)
        /\ \E k \in 1..Len(corr_df) :
              corr_df[k].lag = best.lag /\ corr_df[k].correlation = best.correlation
        /\ \A j \in 1..Len(corr_df) :
              PositiveDefined(j) => AbsLeq(corr_df[j].correlation, best.correlation)

\* a pick among two positive lags of different strength, while an entry
\* at a lag <= 0 is stronger than the one picked
C4_Witness ==
    /\ pc = "picked"
    /\ best # None
    /\ \E j \in 1..Len(corr_df) :
          PositiveDefined(j) /\ AbsLess(corr_df[j].correlation, best.correlation)
    /\ \E j \in 1..Len(corr_df) :
          /\ corr_df[j].lag <= 0
          /\ Defined(j)
          /\ AbsLess(best.correlation, corr_df[j].correlation)

\* C5: among the positive lags that share the largest absolute
\* correlation, find_best_leading_lag returns the smallest.
C5_TieSmallestLag ==
    (pc = "picked" /\ best # None) =>
        \A j \in 1..Len(corr_df) :
            ( /\ PositiveDefined(j)
              /\ AbsLeq(best.correlation, corr_df[j].correlation) )
            => best.lag <= corr_df[j].lag

\* lag 1 is returned while lag 2 has the same absolute correlation
C5_Witness ==
    /\ pc = "picked"
    /\ best # None
    /\ best.lag = 1
    /\ \E j \in 1..Len(corr_df) :
          /\ corr_df[j].lag = 2
          /\ Defined(j)
          /\ AbsLeq(best.correlation, corr_df[j].correlation)
          /\ AbsLeq(corr_df[j].correlation, best.correlation)

\* C6: find_best_leading_lag returns None exactly when no positive lag of
\* the table has a correlation; it raises nothing, and what it returns
\* then is None and no entry at a lag <= 0.
C6_NoneIffNoLeading ==
    pc = "picked" =>
        /\ best = None <=> ~(\E k \in 1..Len(corr_df) : PositiveDefined(k))
        /\ err = "none"

\* None is returned although lag 0 has a correlation and the table has
\* positive lags (all of them NaN)
C6_Witness ==
    /\ pc = "picked"
    /\ best = None
    /\ max_lag >= 1
    /\ \E k \in 1..Len(corr_df) : corr_df[k].lag = 0 /\ Defined(k)

---------------------------------------------------------------------------
(* Properties of the merge *)

DatesOf(t) == {t[i].ds : i \in 1..Len(t)}

\* C7: the table returned by the merge holds exactly the dates present in
\* both inputs, in strictly increasing order (no date twice), and each
\* row carries the price and the trend its date has in the inputs.
C7_InnerJoinSorted ==
    pc = "merged" =>
        /\ DatesOf(merged) = DatesOf(price_df) \cap DatesOf(trends_df)
        /\ \A i \in 1..(Len(merged) - 1) : merged[i].ds < merged[i + 1].ds
        /\ \A i \in 1..Len(merged) :
              /\ \E j \in 1..Len(price_df) :
                    price_df[j].ds = merged[i].ds /\ price_df[j].price = merged[i].price
              /\ \E j \in 1..Len(trends_df) :
                    trends_df[j].ds = merged[i].ds /\ trends_df[j].trend = merged[i].trend

\* inputs of different length in different, descending orders, with
\* different prices, one date missing from the trends: two rows returned
C7_Witness ==
    /\ pc = "merged"
    /\ Len(price_df) = 3
    /\ Len(trends_df) = 2
    /\ price_df[1].ds > price_df[2].ds
    /\ trends_df[1].ds < trends_df[2].ds
    /\ Len(merged) = 2
    /\ merged[1].price # merged[2].price

\* C8: when the inputs share no date the merge raises (ValueError, the
\* empty-result outcome) and returns no table; a table it returns has at
\* least one row.
C8_EmptyMergeRaises ==
    /\ (pc \in {"merged", "failed"} /\ DatesOf(price_df) \cap DatesOf(trends_df) = {})
         => (pc = "failed" /\ err = "ValueError" /\ merged = <<>>)
    /\ pc = "merged" => Len(merged) >= 1

\* prices of two dates and a score of a third date: the merge has raised
C8_Witness ==
    /\ pc = "failed"
    /\ err = "ValueError"
    /\ Len(price_df) = 2
    /\ Len(trends_df) = 1
    /\ merged = <<>>

---------------------------------------------------------------------------
(* Properties of the backtest *)

\* the row of df that row k of bt_df was made from
RowOf(k) == CHOOSE i \in 1..Len(df) : df[i].ds = bt_df[k].ds

WindowOf(i) == (i - params.roll_window + 1)..i

\* the trailing window of row i is complete and its sample standard
\* deviation (n-1 denominator) is defined and not zero
ZDefined(i) ==
    /\ i >= params.roll_window
    /\ params.roll_window >= 2
    /\ \E j \in WindowOf(i) : df[j].trend # df[i].trend

\* z > p/q on row i, for z = (x - mean) / sd over the trailing window:
\* with S the sum of the window, D = w*x - S and V the sum of the
\* (w*x_j - S)^2, x - mean = D/w and sd = sqrt(V / (w-1)) / w
ZAbove(i) ==
    LET w == params.roll_window
        p == params.z_threshold[1]
        q == params.z_threshold[2]
        S == SumSeq([j \in 1..w |-> df[i - w + j].trend])
        D == w * df[i].trend - S
        V == SumSeq([j \in 1..w |-> (w * df[i - w + j].trend - S)
                                       * (w * df[i - w + j].trend - S)])
    IN  /\ ZDefined(i)
        /\ IF p >= 0
           THEN D > 0 /\ q * q * D * D * (w - 1) > p * p * V
           ELSE D >= 0 \/ q * q * D * D * (w - 1) < p * p * V

SlopeUp(i) == i >= 2 /\ df[i].trend > df[i - 1].trend

\* C9: on every row of a backtest result the signal is 0 or 1, and it is
\* 1 exactly when the rolling z-score of the trend on that row is
\* defined and above z_threshold and the first difference of the trend
\* is defined and positive; so it is 0 on the first row, on a row with
\* fewer than roll_window trailing rows and on a row whose window has a
\* zero standard deviation.
C9_SignalRule ==
    pc = "backtested" =>
        \A k \in 1..Len(bt_df) :
            /\ bt_df[k].signal \in {0, 1}
            /\ bt_df[k].signal = 1 <=> (ZAbove(RowOf(k)) /\ SlopeUp(RowOf(k)))
            /\ ( \/ RowOf(k) = 1
                 \/ RowOf(k) < params.roll_window
                 \/ \A j \in WindowOf(RowOf(k)) : df[j].trend = df[RowOf(k)].trend )
               => bt_df[k].signal = 0

\* a result with a row in position and a later row flat because its
\* complete window has a zero standard deviation
C9_Witness ==
    /\ pc = "backtested"
    /\ Len(bt_df) = 3
    /\ params.roll_window = 2
    /\ bt_df[1].signal = 0
    /\ bt_df[2].signal = 1
    /\ bt_df[3].signal = 0
    /\ df[3].trend = df[2].trend

Horizon == params.best_lag

\* C10: for a horizon 0 < L < n the backtest returns, and its result
\* holds the first n - L rows of the input in order, none of the last L
\* rows, row t with the return price[t+L] / price[t] - 1 of a price of
\* the input.
C10_ForwardRows ==
    (pc \in {"backtested", "failed"} /\ 0 < Horizon /\ Horizon < Len(df)) =>
        /\ pc = "backtested"
        /\ Len(bt_df) = Len(df) - Horizon
        /\ \A k \in 1..Len(bt_df) :
              /\ bt_df[k].ds = df[k].ds
              /\ \A j \in (Len(df) - Horizon + 1)..Len(df) : bt_df[k].ds # df[j].ds
              /\ k + Horizon <= Len(df)
              /\ bt_df[k].bh_ret.den > 0
              /\ bt_df[k].bh_ret.num * df[k].price
                    = (df[k + Horizon].price - df[k].price) * bt_df[k].bh_ret.den

\* four rows and a horizon of 2: two rows returned, with a gain and a loss
C10_Witness ==
    /\ pc = "backtested"
    /\ Len(df) = 4
    /\ Horizon = 2
    /\ Len(bt_df) = 2
    /\ bt_df[1].bh_ret.num > 0
    /\ bt_df[2].bh_ret.num < 0

---------------------------------------------------------------------------
(* Properties of the backtest: returns, equity curves, benchmark *)

\* C11: on every row of every backtest result, bh_ret is the return
\* price[t+L] / price[t] - 1 of the input row t it comes from and
\* strategy_ret is signal times that return; so strategy_ret is 0 where
\* the signal is 0 and equals bh_ret where the signal is 1.
C11_ReturnsRule ==
    pc = "backtested" =>
        \A k \in 1..Len(bt_df) :
            LET r    == bt_df[k]
                t    == RowOf(k)
                base == df[t].price
                gain == df[t + Horizon].price - df[t].price
            IN  /\ t + Horizon \in 1..Len(df)
                /\ r.bh_ret.den > 0
                /\ r.bh_ret.num * base = gain * r.bh_ret.den
                /\ r.strategy_ret.den > 0
                /\ r.strategy_ret.num * base = r.signal * gain * r.strategy_ret.den
                /\ r.signal = 0 => r.strategy_ret.num = 0
                /\ r.signal = 1 => r.strategy_ret = r.bh_ret

\* a result with a row in position that gains and a row out of position
\* whose benchmark return is a loss
C11_Witness ==
    /\ pc = "backtested"
    /\ Horizon = 1
    /\ Len(bt_df) = 3
    /\ bt_df[2].signal = 1
    /\ bt_df[2].strategy_ret.num > 0
    /\ bt_df[3].signal = 0
    /\ bt_df[3].bh_ret.num < 0

\* eq = prev * (1 + ret), for fractions
EquityStep(prev, ret, eq) ==
    /\ eq.den > 0
    /\ eq.num * prev.den * ret.den = eq.den * prev.num * (ret.den + ret.num)

\* ret > -1
AboveMinusOne(ret) == ret.den > 0 /\ ret.num > -ret.den

\* C12: in every backtest result the strategy curve and the benchmark
\* curve each start at 1 + return[0] and continue with
\* equity[k] = equity[k-1] * (1 + return[k]); every value of a curve is
\* non-negative when all the returns of that curve are above -1.
C12_EquityRecurrence ==
    pc = "backtested" =>
        /\ \A k \in 1..Len(bt_df) :
              /\ EquityStep(IF k = 1 THEN One ELSE bt_df[k - 1].equity_strategy,
                            bt_df[k].strategy_ret, bt_df[k].equity_strategy)
              /\ EquityStep(IF k = 1 THEN One ELSE bt_df[k - 1].equity_bh,
                            bt_df[k].bh_ret, bt_df[k].equity_bh)
        /\ (\A k \in 1..Len(bt_df) : AboveMinusOne(bt_df[k].strategy_ret))
              => \A k \in 1..Len(bt_df) : bt_df[k].equity_strategy.num >= 0
        /\ (\A k \in 1..Len(bt_df) : AboveMinusOne(bt_df[k].bh_ret))
              => \A k \in 1..Len(bt_df) : bt_df[k].equity_bh.num >= 0

\* three rows whose first return is a gain: the benchmark curve starts
\* at 2, falls back to 1 and gains again, the strategy curve is in
\* position on the last row only
C12_Witness ==
    /\ pc = "backtested"
    /\ Len(bt_df) = 3
    /\ bt_df[1].equity_bh = Frac(2, 1)
    /\ bt_df[2].equity_bh = Frac(1, 1)
    /\ bt_df[3].equity_bh = Frac(2, 1)
    /\ bt_df[1].equity_strategy = One
    /\ bt_df[3].equity_strategy = Frac(2, 1)

\* the call has returned or raised
Returned == pc \in {"backtested", "failed"}

\* the run on the same table at the same horizon with z_threshold 0 and
\* roll_window 2
ReferenceRun == BacktestTable(df, Horizon, <<0, 1>>, 2)

\* C13: a run returns the rows, the bh_ret column, the equity_bh column
\* and the total benchmark return of the run on the same table at the
\* same horizon with other z_threshold and roll_window (the reference
\* parameters), and fails when that run fails; so two runs that differ
\* only in z_threshold or roll_window agree on all of these.
C13_BenchmarkInvariant ==
    Returned =>
        LET other == ReferenceRun
        IN  /\ pc = "backtested" =>
                  /\ Len(bt_df) = Len(other)
                  /\ \A k \in 1..Len(bt_df) :
                        /\ bt_df[k].ds = other[k].ds
                        /\ bt_df[k].bh_ret = other[k].bh_ret
                        /\ bt_df[k].equity_bh = other[k].equity_bh
                  /\ metrics.total_return_bh
                        = BacktestMetrics(other, Horizon).total_return_bh
            /\ (pc = "failed" /\ err = "IndexError") => other = <<>>

\* a run with another window and threshold than the reference run, whose
\* signal column differs from the reference run's, with a benchmark that
\* moves
C13_Witness ==
    /\ pc = "backtested"
    /\ params.roll_window = 3
    /\ params.z_threshold = <<1, 2>>
    /\ Len(bt_df) = 3
    /\ Column(bt_df, "signal") # Column(ReferenceRun, "signal")
    /\ Column(bt_df, "equity_strategy") # Column(ReferenceRun, "equity_strategy")
    /\ bt_df[3].equity_bh # One

---------------------------------------------------------------------------
(* Properties of the backtest: the horizon argument *)

\* C14: a backtest called with a horizon L <= 0 is rejected with
\* InvalidHorizonError; it returns no table and no metrics.
C14_NonPositiveHorizonRejected ==
    (Returned /\ Horizon <= 0) =>
        /\ pc = "failed"
        /\ err = "InvalidHorizonError"
        /\ bt_df = <<>>
        /\ metrics = None

\* C15: a backtest called with a horizon L >= the number of aligned rows,
\* so that no row has a forward return, fails with InvalidHorizonError,
\* not with another exception and not with a result.
C15_OutOfRangeHorizonTyped ==
    (Returned /\ Horizon >= Len(df)) =>
        /\ pc = "failed"
        /\ err = "InvalidHorizonError"

---------------------------------------------------------------------------
(* Properties of the volatility features *)

Featured == pc \in {"featured", "naive"}

LongestWindow == Max(params.window_short, params.window_long)

\* output row j is the loaded row `at`, with every numeric column defined
FeatureRowOf(j, at) ==
    /\ df[j].ds = price_df[at].ds
    /\ df[j].y = price_df[at].y
    /\ \A c \in FeatureColumns : df[j][c].den > 0

\* C16, as the specification states it:
\* for windows >= 1 compute_volatility_features returns
\* n - (max(window_short, window_long) - 1) rows, the loaded rows from
\* index max(window_short, window_long) - 1 onward, every column defined.
C16_RowCountAnyWindow ==
    Featured =>
        /\ Len(df) = Len(price_df) - (LongestWindow - 1)
        /\ \A j \in 1..Len(df) : FeatureRowOf(j, j + LongestWindow - 1)

\* C16, as the code has it:
\* for windows >= 2 compute_volatility_features returns
\* max(0, n - (max(window_short, window_long) - 1)) rows, the loaded rows
\* from index max(window_short, window_long) - 1 onward, every column
\* defined; with a window of 1 it returns no row, the sample standard
\* deviation of one return being undefined.
C16_FullWindowRows ==
    Featured =>
        /\ (params.window_short >= 2 /\ params.window_long >= 2) =>
              /\ Len(df) = Max(0, Len(price_df) - (LongestWindow - 1))
              /\ \A j \in 1..Len(df) : FeatureRowOf(j, j + LongestWindow - 1)
        /\ (params.window_short = 1 \/ params.window_long = 1) => df = <<>>

\* five loaded rows and windows of 2 and 3: the last three rows are
\* returned, the first of them with a short volatility that is not zero
C16_Witness ==
    /\ pc = "featured"
    /\ Len(price_df) = 5
    /\ params.window_short = 2
    /\ params.window_long = 3
    /\ Len(df) = 3
    /\ df[1].ds = price_df[3].ds
    /\ df[1].vol_short.num > 0

FlatPrice == \A i \in 1..Len(price_df) : price_df[i].y = price_df[1].y

\* every returned row has a zero return and zero volatilities
FlatFeatures ==
    \A j \in 1..Len(df) : \A c \in FeatureColumns : df[j][c] = Whole(0)

\* the metric is a number and every error it is the mean of is zero
MetricIsZero(m) ==
    /\ m.kind # "nan"
    /\ m.pairs # <<>>
    /\ \A i \in 1..Len(m.pairs) : m.pairs[i].y_true = m.pairs[i].y_pred

\* C17, as the specification states it:
\* for a constant price series every returned row has
\* ret = 0, vol_short = 0 and vol_long = 0, and naive_vol_forecast on
\* that table returns MAE = 0 and RMSE = 0.
C17_FlatZeroMetrics ==
    (Featured /\ FlatPrice) =>
        /\ FlatFeatures
        /\ pc = "naive" => (MetricIsZero(metrics.MAE) /\ MetricIsZero(metrics.RMSE))

\* C17, as the code has it:
\* for a constant price series every returned row has
\* ret = 0, vol_short = 0 and vol_long = 0; naive_vol_forecast on that
\* table returns MAE = 0 and RMSE = 0 when the table has more rows than
\* the horizon, and NaN for both when it has not (no row has a target).
C17_FlatZeroOrNaN ==
    (Featured /\ FlatPrice) =>
        /\ FlatFeatures
        /\ (pc = "naive" /\ Len(df) > params.horizon) =>
              (MetricIsZero(metrics.MAE) /\ MetricIsZero(metrics.RMSE))
        /\ (pc = "naive" /\ Len(df) <= params.horizon) =>
              (metrics.MAE = MetricNaN /\ metrics.RMSE = MetricNaN)

\* a flat series at price 2, four rows of features, a forecast at
\* horizon 2 over two rows with both metrics zero
C17_Witness ==
    /\ pc = "naive"
    /\ FlatPrice
    /\ price_df[1].y = 2
    /\ Len(df) = 4
    /\ params.horizon = 2
    /\ Len(forecast) = 2
    /\ MetricIsZero(metrics.MAE)
    /\ MetricIsZero(metrics.RMSE)

---------------------------------------------------------------------------
(* Properties of the forecasts *)

\* C18: for a table of m rows of features and a horizon h, 1 <= h < m,
\* naive_vol_forecast returns the first m - h rows; row t has the target
\* |ret[t+h]| and the forecast vol_long_ann[t], and MAE and RMSE are
\* computed over these m - h pairs, in order.
C18_NaiveRows ==
    (pc = "naive" /\ params.horizon < Len(df)) =>
        /\ Len(forecast) = Len(df) - params.horizon
        /\ \A t \in 1..Len(forecast) :
              /\ forecast[t].ds = df[t].ds
              /\ forecast[t].realized_vol_next.num = df[t + params.horizon].ret.num
              /\ forecast[t].realized_vol_next.den = df[t + params.horizon].ret.den
              /\ forecast[t].realized_vol_next.sgn
                    = df[t + params.horizon].ret.sgn * df[t + params.horizon].ret.sgn
              /\ forecast[t].forecast_vol = df[t].vol_long_ann
        /\ metrics.MAE.kind = "mean_abs"
        /\ metrics.RMSE.kind = "root_mean_sq"
        /\ \A m \in {metrics.MAE, metrics.RMSE} :
              /\ Len(m.pairs) = Len(df) - params.horizon
              /\ \A t \in 1..Len(m.pairs) :
                    /\ m.pairs[t].y_true = forecast[t].realized_vol_next
                    /\ m.pairs[t].y_pred = forecast[t].forecast_vol

\* five rows of features at horizon 2: three rows returned, the target
\* of the first is the falling return of row 3, the targets differ and
\* the forecasts differ
C18_Witness ==
    /\ pc = "naive"
    /\ Len(df) = 5
    /\ params.horizon = 2
    /\ Len(forecast) = 3
    /\ df[3].ret.sgn = -1
    /\ forecast[1].realized_vol_next = Whole(1)
    /\ forecast[2].realized_vol_next = Whole(0)
    /\ forecast[1].forecast_vol # forecast[2].forecast_vol
    /\ df[1].ret # df[3].ret

\* the time of the first test row
SplitPoint == forecast[1].ds

\* the values a return or a volatility of the input is changed to
Changed == {Whole(0), Whole(1)}

\* C19: for every horizon >= 1 and every test_size, changing a return or
\* a volatility of the input of xgboost_vol_forecast at a time after the
\* split point changes neither the (feature, target) rows the model is
\* fit on nor a prediction for a time at or before the split point.
C19_NoLookAhead ==
    pc = "learned" =>
        \A s \in 1..Len(df), c \in FeatureColumns, v \in Changed :
            df[s].ds > SplitPoint =>
                LET other == XgbRun([df EXCEPT ![s][c] = v],
                                    params.horizon, params.test_size)
                IN  /\ other.model = model
                    /\ \A j \in 1..Len(other.df_pred) :
                          other.df_pred[j].ds <= SplitPoint =>
                              other.df_pred[j].forecast_vol_xgb
                                  = forecast[j].forecast_vol_xgb

---------------------------------------------------------------------------
(* Properties of the lag scan on the table ScenarioOne *)

\* the entry of lag 0 of a scan with max_lag = 2
LagZero == corr_df[3]

\* with n paired values x, y: C = n*Sxy - Sx*Sy, and Vx, Vy alike, so
\* that the Pearson correlation is C / sqrt(Vx * Vy)
FullCov ==
    LET x == [i \in 1..Len(df) |-> df[i].trend]
        y == [i \in 1..Len(df) |-> df[i].price]
    IN  Len(df) * Dot(x, y) - SumSeq(x) * SumSeq(y)

FullVarX ==
    LET x == [i \in 1..Len(df) |-> df[i].trend]
    IN  Len(df) * Dot(x, x) - SumSeq(x) * SumSeq(x)

FullVarY ==
    LET y == [i \in 1..Len(df) |-> df[i].price]
    IN  Len(df) * Dot(y, y) - SumSeq(y) * SumSeq(y)

\* the entry of lag 0 is the Pearson correlation of the full columns
LagZeroIsPearson ==
    /\ LagZero.lag = 0
    /\ LagZero.correlation.den > 0
    /\ LagZero.correlation.sgn = Sign(FullCov)
    /\ LagZero.correlation.num * FullVarX * FullVarY
          = FullCov * FullCov * LagZero.correlation.den

\* lo / 1000 <= r < hi / 1000 for a positive r held as sign and square
Between(r, lo, hi) ==
    /\ r.sgn = 1
    /\ lo * lo * r.den <= r.num * 1000 * 1000
    /\ r.num * 1000 * 1000 < hi * hi * r.den

OnScenarioOne == Scanned /\ df = ScenarioOne /\ max_lag = 2

\* C20, as the specification states it:
\* on ScenarioOne with max_lag = 2 the entry of lag 0
\* is the Pearson correlation of the two full columns and it is 0.98
\* when rounded to two decimals (0.975 <= r < 0.985).
C20_ScenarioRoundsTo098 ==
    OnScenarioOne => (LagZeroIsPearson /\ Between(LagZero.correlation, 975, 985))

\* C20, as the code has it:
\* on ScenarioOne with max_lag = 2 the entry of lag 0 is
\* the Pearson correlation of the two full columns, 48 / sqrt(2520), and
\* it is 0.96 when rounded to two decimals (0.955 <= r < 0.965).
C20_ScenarioRoundsTo096 ==
    OnScenarioOne =>
        /\ LagZeroIsPearson
        /\ LagZero.correlation.num * 2520 = 48 * 48 * LagZero.correlation.den
        /\ Between(LagZero.correlation, 955, 965)

\* the scan of ScenarioOne has returned its five entries
C20_Witness ==
    /\ pc = "scanned"
    /\ df = ScenarioOne
    /\ max_lag = 2
    /\ Len(corr_df) = 5
    /\ LagZero.lag = 0
    /\ LagZero.correlation.sgn = 1

---------------------------------------------------------------------------
(* Properties of calls that share one input *)

\* the input as a private copy taken before the calls holds it: the merged
\* table, or the features of the loaded series
PrivateCopy ==
    IF price_df = <<>> THEN merged
    ELSE VolatilityFeatures(price_df, params.window_short, params.window_long)

\* every result held is the result of the same call on the private copy
ResultsAsOnPrivateCopy ==
    /\ corr_df # <<>> => corr_df = ScanTable(PrivateCopy, max_lag)
    /\ pc = "backtested" =>
          /\ bt_df = BacktestTable(PrivateCopy, params.best_lag,
                                   params.z_threshold, params.roll_window)
          /\ metrics = BacktestMetrics(bt_df, params.best_lag)
    /\ pc = "naive" =>
          /\ forecast = NaiveValid(PrivateCopy, params.horizon)
          /\ metrics = NaiveMetrics(forecast)
    /\ pc = "learned" =>
          LET run == XgbRun(PrivateCopy, params.horizon, params.test_size)
          IN  /\ forecast = run.df_pred
              /\ metrics = run.metrics
              /\ model = run.model

\* C21: the scan, the backtest, the naive forecast and the learned
\* forecast never change the table they are given: over every call, one
\* that returns and one that raises, the caller's table has the same rows,
\* columns and values after it as before; and after any sequence of
\* these calls on one shared table every result is the one the same call
\* gives on a private copy of that table.
C21_InputNeverMutated ==
    /\ [][df' = df]_vars
    /\ [](df = PrivateCopy /\ ResultsAsOnPrivateCopy)

\* a table of two rows given to the scan and then to a backtest that
\* returned, and that still holds its two rows of three columns
C21_Witness ==
    /\ pc = "backtested"
    /\ corr_df # <<>>
    /\ bt_df # <<>>
    /\ Len(df) = 2
    /\ \A i \in 1..Len(df) : DOMAIN df[i] = {"ds", "price", "trend"}
    /\ df = merged

---------------------------------------------------------------------------
(* Properties of the candle table *)

\* the table exists
TableExists == price_klines.exists

\* every record of the batch has the key of a row of the table
KeysPresent(symbol, interval, batch) ==
    \A k \in 1..Len(batch) :
        Key(Records(symbol, interval, batch)[k]) \in Keys(price_klines)

\* at most one row for each (symbol, interval, open_time)
OneRowPerKey ==
    TableExists =>
        \A r \in BagToSet(price_klines.rows) :
            /\ CopiesIn(r, price_klines.rows) = 1
            /\ \A o \in BagToSet(price_klines.rows) : Key(o) = Key(r) => o = r

\* a call whose records all have a key of the table leaves the table as
\* it is: every batch and every response that can be inserted next
PresentKeysNoChange ==
    TableExists =>
        \A symbol \in KlineSymbols, interval \in KlineIntervals :
            /\ \A batch \in Batches :
                  KeysPresent(symbol, interval, batch) =>
                      InsertKlinesResult(price_klines, symbol, interval,
                                         batch, TRUE).table = price_klines
            /\ \A klines \in KlineResponses :
                  KeysPresent(symbol, interval, KlinesToDf(klines)) =>
                      LoadRecentResult(price_klines, symbol, interval,
                                       klines, TRUE, TRUE).table = price_klines

\* every row of the table is a row of the table after the call
StoredRowsKept ==
    TableExists =>
        /\ price_klines'.exists
        /\ \A r \in BagToSet(price_klines.rows) :
              CopiesIn(r, price_klines'.rows) = CopiesIn(r, price_klines.rows)

\* C22: after any sequence of insert_klines and load_recent_klines_to_db
\* calls the table price_klines holds at most one row for each
\* (symbol, interval, open_time); a call whose batch has only keys that
\* are in the table leaves the table unchanged; and a row that is stored
\* is not changed or removed by a later insert of its key.
C22_InsertIdempotent ==
    /\ [](OneRowPerKey /\ PresentKeysNoChange)
    /\ [][StoredRowsKept]_vars

\* the table holds two rows, and the last call, which returned, was an
\* insert of a batch of two rows that added no row
C22_Witness ==
    /\ TableExists
    /\ pc = "returned"
    /\ params.call = "insert_klines"
    /\ params.rows = 2
    /\ params.added = 0
    /\ BagCardinality(price_klines.rows) = 2

---------------------------------------------------------------------------
(* Properties of the positions of a backtest *)

\* the table t with another indicator value on row j
OtherTrend(t, j) == [t EXCEPT ![j].trend = 1 - t[j].trend]

\* the table t with another price on row j
OtherPrice(t, j) == [t EXCEPT ![j].price = 3 - t[j].price]

\* the backtest of the table t with the arguments of the call made
Rerun(t) ==
    BacktestTable(t, params.best_lag, params.z_threshold, params.roll_window)

\* the rows of bt_df whose position does not look at row j of the
\* indicator: j is outside the window of the row and is not the row before
Blind(j) ==
    {k \in 1..Len(bt_df) : j \notin WindowOf(RowOf(k)) \cup {RowOf(k) - 1}}

\* the table other has the rows of bt_df, with the same signal on rows ks
SameSignal(other, ks) ==
    /\ Len(other) = Len(bt_df)
    /\ \A k \in ks : /\ other[k].ds = bt_df[k].ds
                      /\ other[k].signal = bt_df[k].signal

\* C23: the position on row t of a backtest is determined by the
\* indicator values of the roll_window rows ending at t and of row t - 1:
\* another indicator value on any other row, a row after t in particular,
\* or another price on any row, gives the same signal on row t.
C23_SignalLooksBack ==
    pc = "backtested" =>
        \A j \in 1..Len(df) :
            /\ SameSignal(Rerun(OtherTrend(df, j)), Blind(j))
            /\ {k \in 1..Len(bt_df) : RowOf(k) < j} \subseteq Blind(j)
            /\ SameSignal(Rerun(OtherPrice(df, j)), 1..Len(bt_df))

\* a backtest in position on a row that has a row after it
C23_Witness ==
    /\ pc = "backtested"
    /\ params.roll_window = 2
    /\ \E k \in 1..Len(bt_df) :
          /\ bt_df[k].signal = 1
          /\ RowOf(k) < Len(df)

---------------------------------------------------------------------------
(* Properties of the split of the learned forecast *)

\* the usable rows: those with a target and every lagged feature
Usable == XgbFrame(df, params.horizon)

\* floor(m * (1 - test_size)) for m usable rows and test_size = p / q: the
\* largest s with s * q <= m * (q - p)
TrainCount ==
    LET m == Len(Usable)
        p == params.test_size[1]
        q == params.test_size[2]
    IN  CHOOSE s \in 0..m : s * q <= m * (q - p) /\ (s + 1) * q > m * (q - p)

\* the times of the rows lo..hi of the usable rows
TimesOf(lo, hi) == {Usable[i].ds : i \in lo..hi}

---------------------------------------------------------------------------
(* Properties of the risk-adjusted ratio of a backtest *)

\* the strategy returns of the evaluated rows
StrategyReturns == Column(bt_df, "strategy_ret")

\* the sample standard deviation of the strategy returns is defined and
\* positive: there are two evaluated rows with different returns
StdPositive ==
    \E a \in 1..Len(bt_df), b \in 1..Len(bt_df) :
        StrategyReturns[a] # StrategyReturns[b]

\* r = mean / std * sqrt(252 / L), by its sign and its square
IsRatio(r) ==
    LET avg == FMul(FSum(StrategyReturns), Frac(1, Len(bt_df)))
        var == SampleVar(StrategyReturns)
    IN  /\ ~IsNaN(r)
        /\ r.sgn = Sign(avg.num)
        /\ r.num * (avg.den * avg.den * var.num * Horizon)
              = r.den * (avg.num * avg.num * var.den * 252)

---------------------------------------------------------------------------
(* Properties of the lag scan: totality *)

\* the slices of entry k of the scan
SlicesOf(k) == samples[k]

\* C26: compute_lagged_correlations raises no error, whatever the number
\* n >= 0 of rows and max_lag >= 0, lags with |lag| >= n included; at
\* every lag where a correlation is computed the two slices have the same
\* length n - |lag|, so that slices of different length are found only at
\* lags whose correlation is NaN.
C26_ScanTotal ==
    /\ pc # "failed"
    /\ err = "none"
    /\ Scanned =>
          /\ Len(samples) = Len(corr_df)
          /\ \A k \in 1..Len(corr_df) :
                /\ Len(SlicesOf(k).x) >= MinSupport =>
                      /\ Len(SlicesOf(k).x) = Len(df) - Abs(corr_df[k].lag)
                      /\ Len(SlicesOf(k).y) = Len(df) - Abs(corr_df[k].lag)
                /\ Len(SlicesOf(k).x) # Len(SlicesOf(k).y) => ~Defined(k)

\* a scan of two rows with max_lag = 3: at lag -3 the indicator slice is
\* empty and the price slice has one element
C26_Witness ==
    /\ pc = "scanned"
    /\ Len(df) = 2
    /\ max_lag = 3
    /\ corr_df[1].lag = -3
    /\ Len(SlicesOf(1).x) = 0
    /\ Len(SlicesOf(1).y) = 1
    /\ ~Defined(1)

---------------------------------------------------------------------------
(* Properties of the rolling z-score of a backtest *)

\* the z-score of row i of the input, for the window of the call
ZOf(i) == TrendZ(Column(df, "trend"), params.roll_window, i)

\* z_threshold >= (w - 1) / sqrt(w), for z_threshold = p / q >= 0
ThresholdAtBound ==
    LET w == params.roll_window
        p == params.z_threshold[1]
        q == params.z_threshold[2]
    IN  p >= 0 /\ p * p * w >= (w - 1) * (w - 1) * q * q

\* C27: for a roll_window w >= 2 every defined rolling z-score of the
\* indicator satisfies z^2 * w <= (w - 1)^2; so a backtest with
\* z_threshold >= (w - 1) / sqrt(w) that returns has signal 0 and
\* equity_strategy 1 on every row, and no active period.
C27_ZScoreBound ==
    (Returned /\ params.roll_window >= 2) =>
        LET w == params.roll_window
        IN  /\ \A i \in 1..Len(df) :
                  ~IsNaN(ZOf(i)) => ZOf(i).num * w <= (w - 1) * (w - 1) * ZOf(i).den
            /\ (pc = "backtested" /\ ThresholdAtBound) =>
                  /\ \A k \in 1..Len(bt_df) :
                        /\ bt_df[k].signal = 0
                        /\ bt_df[k].equity_strategy = One
                  /\ metrics.n_trades_periods = 0

\* a backtest with roll_window 3 and z_threshold 3/2 over a rising
\* indicator: on an evaluated row the z-score is at the bound 2 / sqrt(3),
\* the indicator rises, and the position is 0
C27_Witness ==
    /\ pc = "backtested"
    /\ params.roll_window = 3
    /\ params.z_threshold = <<3, 2>>
    /\ \E k \in 1..Len(bt_df) :
          /\ ZOf(RowOf(k)).sgn = 1
          /\ ZOf(RowOf(k)).num * 3 = 4 * ZOf(RowOf(k)).den
          /\ SlopeUp(RowOf(k))
          /\ bt_df[k].signal = 0
          /\ bt_df[k].bh_ret.num # 0

---------------------------------------------------------------------------
(* Properties of the naive forecast on a table without targets *)

\* no row of the features has a target: fewer rows than horizon + 1
NoTarget == Len(df) < params.horizon + 1

\* the metric m is a number: a mean over at least one row
NumericMetric(m) == m.kind # "nan"

\* C28: naive_vol_forecast on features in which no row has a target
\* (fewer than horizon + 1 rows, no row at all included) raises nothing
\* and returns a table without rows beside MAE = NaN and RMSE = NaN; a
\* metric that is a number is never a mean over zero rows.
C28_NaiveWithoutTargets ==
    pc = "naive" =>
        /\ err = "none"
        /\ NoTarget =>
              /\ forecast = <<>>
              /\ ~NumericMetric(metrics.MAE)
              /\ ~NumericMetric(metrics.RMSE)
        /\ \A m \in {metrics.MAE, metrics.RMSE} :
              NumericMetric(m) => (Len(m.pairs) >= 1 /\ Len(m.pairs) = Len(forecast))

\* features of two rows and a forecast at horizon 2: no row returned and
\* both metrics NaN
C28_Witness ==
    /\ pc = "naive"
    /\ Len(df) = 2
    /\ params.horizon = 2
    /\ forecast = <<>>
    /\ metrics = [MAE |-> MetricNaN, RMSE |-> MetricNaN]

---------------------------------------------------------------------------
(* Properties of the replay session *)

\* the stored snapshot index and the number of loaded timestamps
StoredIdx == session_state[SESSION_KEY_IDX]

LoadedCount == Len(session_state[SESSION_KEY_TIMESTAMPS])

\* a frame is being rendered, or has been rendered in this run
AtFrame == pc \in {"render", "rendered"}

\* whenever a frame is rendered the stored index is one of the loaded
\* timestamps, and the frame is the one of that timestamp
IdxInRange ==
    /\ AtFrame => (0 <= StoredIdx /\ StoredIdx < LoadedCount)
    /\ pc = "rendered" =>
          /\ rendered.idx = StoredIdx
          /\ rendered.count = LoadedCount
          /\ rendered.frame.heatmap_of = StoredIdx + 1
    /\ err # "IndexError"
    /\ err = "StreamlitAPIException" => LoadedCount = 1

\* a run whose load found rows stores the index 0
LoadResets ==
    (pc \in {"idle", "rerun"} /\ params'.clicked /\ params'.load.kind = "rows")
        => /\ session_state'[SESSION_KEY_IDX] = 0
           /\ session_state'[SESSION_KEY_LOADED]
           /\ Len(session_state'[SESSION_KEY_TIMESTAMPS]) = params'.load.count

\* an auto-play step stores the next index, and 0 after the last one
PlayAdvances ==
    (pc = "rendered" /\ session_state[SESSION_KEY_PLAY]) =>
        /\ StoredIdx < LoadedCount - 1 => session_state'[SESSION_KEY_IDX] = StoredIdx + 1
        /\ StoredIdx = LoadedCount - 1 => session_state'[SESSION_KEY_IDX] = 0
        /\ pc' = "rerun"

\* C29: in the replay session, over any sequence of runs (a load, a load
\* that fails, a slider move, an auto-play step), whenever a frame is
\* rendered the stored index idx satisfies 0 <= idx < the number of loaded
\* timestamps; a successful load sets idx to 0; and an auto-play step
\* sets idx to (idx + 1) mod the number of timestamps, from the last
\* frame back to the first.
C29_ReplayIndexInRange ==
    /\ []IdxInRange
    /\ [][LoadResets /\ PlayAdvances]_vars

\* the last of three frames rendered with Play ticked, and the step after
\* it: the run that follows starts from index 0
C29_Witness ==
    /\ pc = "rerun"
    /\ rendered # None
    /\ rendered.idx = 2
    /\ rendered.count = 3
    /\ session_state[SESSION_KEY_PLAY]
    /\ session_state[SESSION_KEY_IDX] = 0

---------------------------------------------------------------------------
(* Properties of the ETL loop *)

\* the i-th attempt of the running cycle failed
FailedAt(i) == i <= Len(attempts) /\ attempts[i].error # "none"

\* what the running cycle has attempted is the start of the list, in the
\* order of the list, whatever failed
InListOrder ==
    pc = "loop" =>
        /\ Len(attempts) = sym - 1
        /\ Len(attempts) <= Len(symbols)
        /\ \A i \in 1..Len(attempts) : attempts[i].symbol = symbols[i]

\* the loop is only left by init_klines_table failing before it
NeverTerminated == pc \in {"start", "loop"} \/ (pc = "raised" /\ cycle = 0)

\* a failed attempt leaves the table as it was and moves on to the next
\* symbol of the list
FailureConfined ==
    (/\ pc = "loop"
     /\ Len(attempts') = Len(attempts) + 1
     /\ attempts'[Len(attempts')].error # "none")
        => /\ pc' = "loop"
           /\ price_klines' = price_klines
           /\ sym' = sym + 1
           /\ cycle' = cycle

\* a cycle ends, with the sleep, after every symbol has been attempted
SleepAfterAll ==
    (pc = "loop" /\ cycle' # cycle)
        => /\ Len(attempts) = Len(symbols)
           /\ cycle' = cycle + 1
           /\ pc' = "loop"

\* a symbol that failed in a cycle: the cycle attempts the whole list, and
\* the next cycle attempts the symbol again
TriedAgain ==
    \A c \in 1..(MaxCycles - 1), i \in 1..Len(DefaultSymbols) :
        (cycle = c /\ pc = "loop" /\ FailedAt(i))
            ~> (cycle = c /\ Len(attempts) = Len(symbols)
                  /\ <>(cycle = c + 1 /\ Len(attempts) >= i
                         /\ attempts[i].symbol = symbols[i]))

\* C30: in run_realtime_klines_etl a failure of load_recent_klines_to_db
\* for one symbol stays with that symbol in that cycle: the other symbols
\* of the list are attempted in the same cycle in the order of the list,
\* the loop then sleeps and starts the next cycle, in which the symbol
\* that failed is attempted again, and no such failure ends the loop.
C30_FailureConfinedToSymbol ==
    /\ [](InListOrder /\ NeverTerminated)
    /\ [][FailureConfined /\ SleepAfterAll]_vars
    /\ TriedAgain

\* in the second cycle the first symbol of two failed, once more or for
\* the first time, and the second was attempted after it and stored a candle
C30_Witness ==
    /\ pc = "loop"
    /\ cycle = 2
    /\ Len(symbols) = 2
    /\ symbols[1] # symbols[2]
    /\ Len(attempts) = 2
    /\ FailedAt(1)
    /\ ~FailedAt(2)
    /\ \E r \in BagToSet(price_klines.rows) : r.symbol = symbols[2]

====
